---- MODULE Spec2Model ----
(***************************************************************************)
(* Orchestration core of work-together: the Coordinator                    *)
(* (src/src/coordinator.js) driving the AgentRegistry                      *)
(* (src/docs/cli-demo.md, lines 62-297) over the six registered agents.    *)
(*                                                                         *)
(* Texts are TLA+ strings handled character by character (SubSeq, Len,     *)
(* \o), so that toLowerCase, trim and the label formatting are computed    *)
(* as the JavaScript computes them.                                        *)
(***************************************************************************)
EXTENDS Integers, Sequences, FiniteSets, TLC

(***************************************************************************)
(* Bounds of the model                                                     *)
(***************************************************************************)
\* most agent ids a caller passes in agentSelections
MaxSelected == 2

\* rejected submissions are counted up to this number
MaxRejected == 2

(***************************************************************************)
(* JavaScript string helpers                                               *)
(***************************************************************************)
\* U+2013 (en dash) of formatAgentLabel; a TLA+ string is ASCII only
EnDash == "--"

UpperChars == "ABCDEFGHIJKLMNOPQRSTUVWXYZ"
LowerChars == "abcdefghijklmnopqrstuvwxyz"

\* position of the first occurrence of character c in s, 0 when absent
IndexIn(c, s) ==
  LET hits == {i \in 1..Len(s) : SubSeq(s, i, i) = c}
  IN IF hits = {} THEN 0 ELSE CHOOSE i \in hits : \A j \in hits : i <= j

\* upper-case letter -> lower-case letter
LowerMap == [c \in {SubSeq(UpperChars, i, i) : i \in 1..26} |->
               SubSeq(LowerChars, IndexIn(c, UpperChars), IndexIn(c, UpperChars))]

\* lower-case letter -> upper-case letter
UpperMap == [c \in {SubSeq(LowerChars, i, i) : i \in 1..26} |->
               SubSeq(UpperChars, IndexIn(c, LowerChars), IndexIn(c, LowerChars))]

LowerChar(c) == IF c \in DOMAIN LowerMap THEN LowerMap[c] ELSE c

UpperChar(c) == IF c \in DOMAIN UpperMap THEN UpperMap[c] ELSE c

RECURSIVE ConcatRange(_, _, _)
\* Piece(lo) \o ... \o Piece(hi), built by halves
ConcatRange(Piece(_), lo, hi) ==
  IF lo > hi THEN ""
  ELSE IF lo = hi THEN Piece(lo)
  ELSE LET mid == (lo + hi) \div 2
       IN ConcatRange(Piece, lo, mid) \o ConcatRange(Piece, mid + 1, hi)

\* String.prototype.toLowerCase
toLowerCase(s) == ConcatRange(LAMBDA i : LowerChar(SubSeq(s, i, i)), 1, Len(s))

\* String.prototype.toUpperCase, used to enumerate inputs in other cases
toUpperCase(s) == ConcatRange(LAMBDA i : UpperChar(SubSeq(s, i, i)), 1, Len(s))

\* \s over the ASCII characters
IsSpace(c) == c \in {" ", "\t", "\n", "\r", "\f"}

\* String.prototype.trim: from the first to the last non-space character
trim(s) ==
  LET solid == {i \in 1..Len(s) : ~IsSpace(SubSeq(s, i, i))}
  IN IF solid = {} THEN ""
     ELSE SubSeq(s, CHOOSE i \in solid : \A j \in solid : i <= j,
                    CHOOSE i \in solid : \A j \in solid : j <= i)

DigitChars == "0123456789"

RECURSIVE String(_)
\* String(n) of a non-negative integer
String(n) ==
  IF n < 10 THEN SubSeq(DigitChars, n + 1, n + 1)
  ELSE String(n \div 10) \o SubSeq(DigitChars, (n % 10) + 1, (n % 10) + 1)

(***************************************************************************)
(* The registry's agents, in registration order                            *)
(***************************************************************************)
ClaudeAgent ==
  [id |-> "claude", name |-> "Claude Code",
   roleProfile |-> [primary |-> "Front-end UX implementation and user-facing communication",
                    secondary |-> "Team coordination & documentation",
                    reviewPreferred |-> FALSE, reviewPriority |-> 2]]

CodexAgent ==
  [id |-> "codex", name |-> "OpenAI Codex",
   roleProfile |-> [primary |-> "Backend logic, complex implementation, and automation",
                    secondary |-> "Architecture decisions & performance tuning",
                    reviewPreferred |-> FALSE, reviewPriority |-> 4]]

GeminiAgent ==
  [id |-> "gemini", name |-> "Gemini CLI",
   roleProfile |-> [primary |-> "Documentation, QA testing, and holistic review",
                    secondary |-> "User experience polish & knowledge synthesis",
                    reviewPreferred |-> TRUE, reviewPriority |-> 8]]

QwenAgent ==
  [id |-> "qwen", name |-> "Qwen Code",
   roleProfile |-> [primary |-> "Full-stack integration & code reading support",
                    secondary |-> "Knowledge base lookups and orchestration",
                    reviewPreferred |-> TRUE, reviewPriority |-> 9]]

OpenCodeAgent ==
  [id |-> "opencode", name |-> "OpenCode",
   roleProfile |-> [primary |-> "DevOps automation, integration scripts, and tooling",
                    secondary |-> "Build pipelines & environment setup",
                    reviewPreferred |-> FALSE, reviewPriority |-> 3]]

WebSearchAgent ==
  [id |-> "web-search", name |-> "Web Search",
   roleProfile |-> [primary |-> "On-demand research and knowledge gathering",
                    secondary |-> "Summaries of search findings for teammates",
                    reviewPreferred |-> FALSE, reviewPriority |-> 0 - 100]]

\* AgentRegistry.agents
agents == <<ClaudeAgent, CodexAgent, GeminiAgent, QwenAgent, OpenCodeAgent, WebSearchAgent>>

AgentIds == {agents[i].id : i \in 1..Len(agents)}

\* AgentRegistry.getAgentById, for an id of the registry
getAgentById(id) == agents[CHOOSE i \in 1..Len(agents) : agents[i].id = id]

(***************************************************************************)
(* Sequence helpers                                                        *)
(***************************************************************************)
Range(s) == {s[i] : i \in 1..Len(s)}

\* index of the first element satisfying Test, 0 when none (Array.prototype.find)
Find(s, Test(_)) ==
  LET hits == {i \in 1..Len(s) : Test(s[i])}
  IN IF hits = {} THEN 0 ELSE CHOOSE i \in hits : \A j \in hits : i <= j

NULL == [null |-> TRUE]
\* a falsy agent id (null)
NoId == ""

(***************************************************************************)
(* State                                                                   *)
(***************************************************************************)
VARIABLES
  settings,                 \* config.settings
  searchAgentAvailable,     \* `available` of the registry's web-search agent
  activeAgents,             \* AgentRegistry.activeAgents (ids, in order)
  mode,                     \* Coordinator.mode
  session,                  \* Coordinator.session, NULL before initializeSession
  pendingVariantSelection,  \* Coordinator.pendingVariantSelection or NULL
  run,                      \* the runPlanningPhase/runExecutionPhase pipeline in progress
  planningEvents,           \* stages emitted on the bus by the current run
  lastCall,                 \* the last call of initializeSession, runPlanningPhase,
                            \* runExecutionPhase or submitVariantSelection, and what
                            \* it returned or threw before its first await
  counters,                 \* request ids issued; rejected submissions of the pending
                            \* request, counted up to MaxRejected
  messageBus                \* the emitter of createMessageBus(): the listeners
                            \* registered for each event, in registration order

vars == <<settings, searchAgentAvailable, activeAgents, mode, session, pendingVariantSelection,
          run, planningEvents, lastCall, counters, messageBus>>

\* MessageEvents
MessageEvents == {"status:update", "planning:update", "error", "request", "team:message"}

\* the emitter of a bus nobody has subscribed to
EmptyBus == [listeners |-> [event \in MessageEvents |-> <<>>], unsubscribes |-> {}]

\* the bus after the Coordinator's constructor has subscribed its handlers
CoordinatorBus ==
  [EmptyBus EXCEPT !.listeners =
     [event \in MessageEvents |->
        IF event = "status:update" THEN <<"handleStatusUpdate">>
        ELSE IF event = "planning:update" THEN <<"handlePlanningUpdate">>
        ELSE IF event = "error" THEN <<"handleError">>
        ELSE IF event = "team:message" THEN <<"handleTeamMessage">>
        ELSE <<>>]]

(***************************************************************************)
(* Role assignment and labels (pure)                                       *)
(***************************************************************************)
NegInfinity == [infinite |-> TRUE, value |-> 0]

Finite(n) == [infinite |-> FALSE, value |-> n]

\* a comparison that lets an equal priority displace the best one
GreaterOrEqual(priority, bestPriority) ==
  bestPriority.infinite \/ priority >= bestPriority.value

\* priority > bestPriority, bestPriority possibly -Infinity
GreaterThan(priority, bestPriority) ==
  bestPriority.infinite \/ priority > bestPriority.value

\* the entry assignRoles builds for one agent, before isReviewAgent is known
RoleEntryOf(agent) ==
  [id |-> agent.id,
   name |-> agent.name,
   rolePrimary |-> IF agent.roleProfile.primary # "" THEN agent.roleProfile.primary
                   ELSE "Generalist contributor",
   roleSecondary |-> agent.roleProfile.secondary,
   reviewPreferred |-> agent.roleProfile.reviewPreferred,
   reviewPriority |-> agent.roleProfile.reviewPriority]

ReviewPriorityOf(entry) ==
  IF entry.reviewPreferred THEN entry.reviewPriority + 10 ELSE entry.reviewPriority

RECURSIVE ReviewLoop(_, _, _, _)
\* the forEach of assignRoles from entry i on
ReviewLoop(entries, i, reviewAgentId, bestPriority) ==
  IF i > Len(entries) THEN reviewAgentId
  ELSE IF GreaterThan(ReviewPriorityOf(entries[i]), bestPriority)
       THEN ReviewLoop(entries, i + 1, entries[i].id, Finite(ReviewPriorityOf(entries[i])))
       ELSE ReviewLoop(entries, i + 1, reviewAgentId, bestPriority)

\* a role assignment that marks every agent whose profile prefers reviewing
assignRolesMarkingPreferred(active) ==
  LET agentsWithRoles == [i \in 1..Len(active) |-> RoleEntryOf(getAgentById(active[i]))]
      looped == ReviewLoop(agentsWithRoles, 1, NoId, NegInfinity)
      reviewAgentId == IF looped = NoId /\ Len(agentsWithRoles) > 0
                       THEN agentsWithRoles[Len(agentsWithRoles)].id
                       ELSE looped
  IN [reviewAgentId |-> reviewAgentId,
      agents |-> [i \in 1..Len(active) |->
                    [id |-> agentsWithRoles[i].id,
                     name |-> agentsWithRoles[i].name,
                     rolePrimary |-> agentsWithRoles[i].rolePrimary,
                     roleSecondary |-> agentsWithRoles[i].roleSecondary,
                     reviewPreferred |-> agentsWithRoles[i].reviewPreferred,
                     reviewPriority |-> agentsWithRoles[i].reviewPriority,
                     isReviewAgent |-> agentsWithRoles[i].reviewPreferred]]]

\* Coordinator.assignRoles(activeAgents) over the agent objects: reviewAgentId
\* and the role entries (session.agents, which session.roles indexes by id)
assignRolesOver(agentObjects) ==
  LET agentsWithRoles == [i \in 1..Len(agentObjects) |-> RoleEntryOf(agentObjects[i])]
      looped == ReviewLoop(agentsWithRoles, 1, NoId, NegInfinity)
      reviewAgentId == IF looped = NoId /\ Len(agentsWithRoles) > 0
                       THEN agentsWithRoles[Len(agentsWithRoles)].id
                       ELSE looped
  IN [reviewAgentId |-> reviewAgentId,
      agents |-> [i \in 1..Len(agentObjects) |->
                    [id |-> agentsWithRoles[i].id,
                     name |-> agentsWithRoles[i].name,
                     rolePrimary |-> agentsWithRoles[i].rolePrimary,
                     roleSecondary |-> agentsWithRoles[i].roleSecondary,
                     reviewPreferred |-> agentsWithRoles[i].reviewPreferred,
                     reviewPriority |-> agentsWithRoles[i].reviewPriority,
                     isReviewAgent |-> agentsWithRoles[i].id = reviewAgentId]]]

\* Coordinator.assignRoles for the active agents of the registry, given by
\* their ids
assignRoles(active) ==
  assignRolesOver([i \in 1..Len(active) |-> getAgentById(active[i])])

\* session.roles[agentId]: index of the entry in the role table, 0 when absent
RoleIndex(roleTable, agentId) == Find(roleTable, LAMBDA e : e.id = agentId)

\* Coordinator.formatAgentLabel over session.roles
formatAgentLabel(roleTable, agentId) ==
  IF agentId = NoId THEN ""
  ELSE LET k == RoleIndex(roleTable, agentId)
       IN IF k = 0 THEN agentId
          ELSE LET entry == roleTable[k]
                   roleTag == IF entry.rolePrimary # "" THEN " " \o EnDash \o " " \o entry.rolePrimary
                              ELSE ""
                   reviewTag == IF entry.isReviewAgent THEN " [Review]" ELSE ""
               IN entry.name \o " (" \o entry.id \o ")" \o roleTag \o reviewTag


(***************************************************************************)
(* Worker capability calls: how one call can settle                        *)
(***************************************************************************)
\* reasons a worker call rejects with: an Error with a message, or a bare
\* thrown value without one (message "" stands for undefined)
Reasons == {[message |-> "offline", text |-> "Error: offline"]}

Fulfilled(value) == [status |-> "fulfilled", value |-> value, reason |-> [message |-> "", text |-> ""]]

Rejected(reason) == [status |-> "rejected", value |-> "", reason |-> reason]

\* a call that has not settled yet
InFlight == [status |-> "inflight", value |-> "", reason |-> [message |-> "", text |-> ""]]

\* result.reason?.message || result.reason
ReasonText(reason) == IF reason.message # "" THEN reason.message ELSE reason.text

\* the ways initialize(task) settles
InitOutcomes == {Fulfilled("")} \cup {Rejected(r) : r \in Reasons}

(***************************************************************************)
(* AgentRegistry.initializeSelected                                        *)
(***************************************************************************)
\* this.agents.filter(agent => selectionSet.has(agent.id)), as ids
SelectedOf(agentIds) ==
  SelectSeq([i \in 1..Len(agents) |-> agents[i].id], LAMBDA id : id \in agentIds)

\* selected, with the web-search agent appended when it is enabled, not
\* selected by the caller and not marked unavailable
WithSearchAgent(agentIds, cfg, avail) ==
  IF cfg.enableWebSearchAgent /\ "web-search" \notin agentIds /\ avail
  THEN SelectedOf(agentIds) \o <<"web-search">>
  ELSE SelectedOf(agentIds)

\* an initialisation that keeps every selected agent active, failed or not
initializeSelectedKeepingFailed(agentIds, cfg, avail, outcome) ==
  LET selected == WithSearchAgent(agentIds, cfg, avail)
      rejectedIdx == SelectSeq([i \in 1..Len(selected) |-> i],
                               LAMBDA i : outcome[selected[i]].status = "rejected")
  IN [activeAgents |-> selected,
      failures |-> [k \in 1..Len(rejectedIdx) |->
                      [agentId |-> selected[rejectedIdx[k]],
                       error |-> outcome[selected[rejectedIdx[k]]].reason]]]

\* initializeSelected: outcome[id] is how agent id's initialize settles
initializeSelected(agentIds, cfg, avail, outcome) ==
  LET selected == WithSearchAgent(agentIds, cfg, avail)
      rejectedIdx == SelectSeq([i \in 1..Len(selected) |-> i],
                               LAMBDA i : outcome[selected[i]].status = "rejected")
  IN [activeAgents |-> SelectSeq(selected, LAMBDA id : outcome[id].status = "fulfilled"),
      failures |-> [k \in 1..Len(rejectedIdx) |->
                      [agentId |-> selected[rejectedIdx[k]],
                       error |-> outcome[selected[rejectedIdx[k]]].reason]]]


(***************************************************************************)
(* Variant workspace naming                                                *)
(***************************************************************************)
IsAlnum(c) == IndexIn(c, LowerChars) > 0 \/ IndexIn(c, DigitChars) > 0

\* s.replace(/[^...]+/g, rep): each maximal run of characters outside Keep
\* becomes one rep (written where the run starts)
ReplaceRuns(s, Keep(_), rep) ==
  ConcatRange(LAMBDA i :
                IF Keep(SubSeq(s, i, i)) THEN SubSeq(s, i, i)
                ELSE IF i > 1 /\ ~Keep(SubSeq(s, i - 1, i - 1)) THEN ""
                ELSE rep,
              1, Len(s))

\* s.replace(/^c+/, '')
StripLeading(s, c) ==
  LET other == {i \in 1..Len(s) : SubSeq(s, i, i) # c}
  IN IF other = {} THEN "" ELSE SubSeq(s, CHOOSE i \in other : \A j \in other : i <= j, Len(s))

\* s.replace(/c+$/, '')
StripTrailing(s, c) ==
  LET other == {i \in 1..Len(s) : SubSeq(s, i, i) # c}
  IN IF other = {} THEN "" ELSE SubSeq(s, 1, CHOOSE i \in other : \A j \in other : j <= i)

\* String.prototype.slice(0, n)
SliceTo(s, n) == IF Len(s) <= n THEN s ELSE SubSeq(s, 1, n)

\* Coordinator.sanitiseForPath (normalize('NFKD') leaves ASCII unchanged)
sanitiseForPath(value, fallback) ==
  IF value = "" THEN fallback
  ELSE LET cleaned == SliceTo(StripTrailing(StripLeading(
                        ReplaceRuns(toLowerCase(value), IsAlnum, "-"), "-"), "-"), 48)
       IN IF cleaned = "" THEN fallback ELSE cleaned

\* s.split(/\s+/).filter(Boolean): the maximal runs of non-space characters
SplitWords(s) ==
  LET IsStart(i) == ~IsSpace(SubSeq(s, i, i)) /\ (i = 1 \/ IsSpace(SubSeq(s, i - 1, i - 1)))
      starts == SelectSeq([i \in 1..Len(s) |-> i], IsStart)
      EndOf(i) == CHOOSE e \in i..Len(s) :
                    /\ \A j \in i..e : ~IsSpace(SubSeq(s, j, j))
                    /\ (e = Len(s) \/ IsSpace(SubSeq(s, e + 1, e + 1)))
  IN [k \in 1..Len(starts) |-> SubSeq(s, starts[k], EndOf(starts[k]))]

\* Array.prototype.join
Join(parts, sep) ==
  ConcatRange(LAMBDA i : IF i = 1 THEN parts[i] ELSE sep \o parts[i], 1, Len(parts))

\* Coordinator.deriveVariantProjectSlug
deriveVariantProjectSlug(userPrompt) ==
  LET spaced == ReplaceRuns(toLowerCase(userPrompt),
                            LAMBDA c : IsAlnum(c) \/ IsSpace(c), " ")
      words == SplitWords(trim(spaced))
      core == Join(SubSeq(words, 1, IF Len(words) < 4 THEN Len(words) ELSE 4), "-")
  IN sanitiseForPath(core, "project")

\* Coordinator.buildAgentFolderName
buildAgentFolderName(agentName, projectSlug) ==
  sanitiseForPath(agentName, "agent") \o "-" \o projectSlug

\* randomUUID(), the n-th one drawn by the coordinator
Uuid(n) == "0000000" \o String(n) \o "-0000-4000-8000-000000000000"

\* this.baseDir
BaseDir == "/work"

\* Coordinator.prepareVariantWorkspace: the workspace directory of a session
\* (session.id.split('-')[0] is the id up to its first hyphen)
prepareVariantWorkspace(sessionId, projectSlug) ==
  LET cut == IndexIn("-", sessionId)
      sessionSuffix == IF cut = 0 THEN sessionId ELSE SubSeq(sessionId, 1, cut - 1)
  IN BaseDir \o "/" \o "variant-" \o projectSlug \o "-" \o sessionSuffix

\* session.userPrompt of the modelled session
UserPrompt == "Implement core feature"


(***************************************************************************)
(* AgentRegistry fan-out: the entries built once every call has settled    *)
(***************************************************************************)
\* this.activeAgents[index]?.id || 'unknown'
IdAt(active, index) == IF index <= Len(active) THEN active[index] ELSE "unknown"

\* this.activeAgents[index]?.name || agentId
NameAt(active, index) ==
  IF index <= Len(active) THEN getAgentById(active[index]).name ELSE IdAt(active, index)

\* a fan-out that keeps only the plans of the calls that fulfilled
runGeneratePlansFulfilledOnly(targets, calls, active) ==
  LET kept == SelectSeq([index \in 1..Len(calls) |-> index],
                        LAMBDA index : calls[index].status = "fulfilled")
  IN [k \in 1..Len(kept) |->
        [agentId |-> targets[kept[k]],
         agentName |-> getAgentById(targets[kept[k]]).name,
         plan |-> calls[kept[k]].value]]

\* AgentRegistry.runGeneratePlans: targets are the agents the calls were
\* issued to, active is this.activeAgents when the results are mapped
runGeneratePlans(targets, calls, active) ==
  [index \in 1..Len(calls) |->
     IF calls[index].status = "fulfilled"
     THEN [agentId |-> targets[index],
           agentName |-> getAgentById(targets[index]).name,
           plan |-> calls[index].value]
     ELSE [agentId |-> IdAt(active, index),
           agentName |-> NameAt(active, index),
           plan |-> "Plan generation failed: " \o ReasonText(calls[index].reason)]]

\* AgentRegistry.runNegotiation
runNegotiation(targets, calls, active) ==
  [index \in 1..Len(calls) |->
     IF calls[index].status = "fulfilled"
     THEN [agentId |-> targets[index], allocation |-> calls[index].value]
     ELSE [agentId |-> IdAt(active, index),
           allocation |-> "Allocation failed: " \o ReasonText(calls[index].reason)]]

\* a fan-out whose entries are those of the fulfilled calls followed by the
\* fallbacks of the rejected ones
executeAssignmentsFulfilledFirst(targets, calls, active) ==
  LET indices == [index \in 1..Len(calls) |-> index]
      fulfilled == SelectSeq(indices, LAMBDA index : calls[index].status = "fulfilled")
      rejected == SelectSeq(indices, LAMBDA index : calls[index].status # "fulfilled")
  IN [k \in 1..Len(fulfilled) |->
        [agentId |-> targets[fulfilled[k]], transcript |-> calls[fulfilled[k]].value]]
     \o [k \in 1..Len(rejected) |->
           [agentId |-> IdAt(active, rejected[k]),
            transcript |-> "Execution failed: " \o ReasonText(calls[rejected[k]].reason)]]

\* AgentRegistry.executeAssignments
executeAssignments(targets, calls, active) ==
  [index \in 1..Len(calls) |->
     IF calls[index].status = "fulfilled"
     THEN [agentId |-> targets[index], transcript |-> calls[index].value]
     ELSE [agentId |-> IdAt(active, index),
           transcript |-> "Execution failed: " \o ReasonText(calls[index].reason)]]

\* what the workers answer when their call fulfils
PlanTexts == {"Plan: split the work"}

AllocationTexts == {"I will take the core module"}

TranscriptTexts == {"Done: files written"}

CallOutcomes(texts) == {Fulfilled(t) : t \in texts} \cup {Rejected(r) : r \in Reasons}

(***************************************************************************)
(* Collaborative synthesis and assignment texts                            *)
(***************************************************************************)
\* String.prototype.includes
Includes(text, pattern) ==
  \E i \in 1..(Len(text) - Len(pattern) + 1) : SubSeq(text, i, i + Len(pattern) - 1) = pattern

\* Coordinator.synthesizePlans(plans).summary
synthesizePlans(plans, roleTable) ==
  LET planLines == [i \in 1..Len(plans) |->
                      "- " \o (IF plans[i].agentId \in AgentIds
                               THEN getAgentById(plans[i].agentId).name
                               ELSE plans[i].agentId) \o ": "
                      \o (IF trim(plans[i].plan) # "" THEN plans[i].plan ELSE "No plan submitted.")]
      roleLines == [i \in 1..Len(roleTable) |->
                      "- " \o roleTable[i].name \o " (" \o roleTable[i].id \o ")"
                      \o (IF roleTable[i].rolePrimary # ""
                          THEN " " \o EnDash \o " " \o roleTable[i].rolePrimary ELSE "")
                      \o (IF roleTable[i].isReviewAgent THEN " [Review]" ELSE "")]
      summaryLines == IF Len(roleTable) > 0
                      THEN planLines \o <<"\nRole assignments:">> \o roleLines
                      ELSE planLines
  IN Join(<<"Combined collaboration plan:">> \o summaryLines, "\n")

ReviewResponsibilities ==
  "\n\nReview Responsibilities: After the other agents announce completion, review the full deliverable. "
  \o "Read all modified files, run necessary checks, and send TEAM_MSG[GROUP] summarizing findings. "
  \o "If issues remain, send targeted TEAM_MSG[TO <agent>] with remediation requests before user hand-off."

CompletionProtocol(reviewAgentId, reviewLabel) ==
  "\n\nCompletion Protocol: When your deliverables are done, send TEAM_MSG[TO " \o reviewAgentId
  \o "] to notify the review agent (" \o reviewLabel \o "). "
  \o "Provide a brief summary of what you completed and any areas needing special attention."

\* an assignment text that gives the review agent its responsibilities but
\* tells no other agent whom to notify
AssignmentTextWithoutProtocol(base, agentId, roleTable, reviewAgentId) ==
  LET k == RoleIndex(roleTable, agentId)
      text == IF base = "" \/ Includes(toLowerCase(base), "no allocation provided")
              THEN "Primary objectives:" ELSE base
  IN IF k # 0 /\ roleTable[k].isReviewAgent THEN text \o ReviewResponsibilities ELSE text

\* the text buildAssignments gives one agent, from its trimmed allocation
AssignmentText(base, agentId, roleTable, reviewAgentId) ==
  LET k == RoleIndex(roleTable, agentId)
      hasRole == k # 0
      rolePrimary == IF hasRole THEN roleTable[k].rolePrimary ELSE ""
      roleSecondary == IF hasRole THEN roleTable[k].roleSecondary ELSE ""
      focus == Join(<<"Primary objectives:",
                      IF rolePrimary # ""
                      THEN "- Deliver on " \o rolePrimary \o " aligned with the user request."
                      ELSE "- Deliver meaningful progress aligned with the user request.">>
                    \o (IF roleSecondary # "" THEN <<"- Secondary: " \o roleSecondary \o ".">> ELSE <<>>),
                    "\n")
      text0 == IF base = "" \/ Includes(toLowerCase(base), "no allocation provided") THEN focus ELSE base
      text1 == IF rolePrimary # "" /\ ~Includes(text0, "Role Focus")
               THEN text0 \o "\n\nRole Focus: " \o rolePrimary \o "." ELSE text0
      text2 == IF roleSecondary # "" /\ ~Includes(text1, "Secondary Focus")
               THEN text1 \o "\nSecondary Focus: " \o roleSecondary \o "." ELSE text1
  IN IF hasRole /\ roleTable[k].isReviewAgent THEN text2 \o ReviewResponsibilities
     ELSE IF reviewAgentId # NoId /\ reviewAgentId # agentId
          THEN text2 \o CompletionProtocol(reviewAgentId, formatAgentLabel(roleTable, reviewAgentId))
          ELSE text2

\* Coordinator.buildAssignments: agent id -> assignment text (a later
\* allocation of the same agent id overwrites an earlier one)
buildAssignments(allocations, roleTable, reviewAgentId) ==
  [agentId \in {allocations[i].agentId : i \in 1..Len(allocations)} |->
     LET last == CHOOSE i \in 1..Len(allocations) :
                   /\ allocations[i].agentId = agentId
                   /\ \A j \in 1..Len(allocations) : allocations[j].agentId = agentId => j <= i
         allocation == allocations[last].allocation
         base == IF trim(allocation) # "" THEN trim(allocation) ELSE "No allocation provided."
     IN AssignmentText(base, agentId, roleTable, reviewAgentId)]

\* Coordinator.buildVariantAssignment
buildVariantAssignment(agentName, projectDir, userPrompt) ==
  Join(<<"VARIANT MODE SOLO BUILD " \o EnDash \o " " \o agentName,
         "",
         "Prompt: " \o (IF trim(userPrompt) # "" THEN trim(userPrompt)
                        ELSE "Follow the user prompt to deliver a complete solution."),
         "Project directory: " \o projectDir,
         "",
         "Instructions:",
         "1. Work independently to deliver a complete, production-ready solution scoped to the prompt.",
         "2. Run all commands inside the project directory. Start by executing: cd " \o projectDir,
         "3. Keep all created or modified files within this directory. Do not touch other variant folders.",
         "4. Produce any build/test artifacts locally inside your folder.",
         "5. Finish with a concise summary of key deliverables and verification steps.",
         "",
         "Do not coordinate with other agents; each is building their own variant.">>, "\n")


(***************************************************************************)
(* Variant results and selection (pure parts)                              *)
(***************************************************************************)
\* the results runVariantPlanningPhase derives from the transcripts;
\* directories are those prepared for session.agents
VariantResults(transcripts, plans, roleTable, workspaceDir, projectSlug) ==
  [index \in 1..Len(transcripts) |->
     LET agentId == transcripts[index].agentId
         k == RoleIndex(roleTable, agentId)
         folderName == IF k = 0 THEN ""
                       ELSE buildAgentFolderName(IF roleTable[k].name # "" THEN roleTable[k].name
                                                 ELSE roleTable[k].id, projectSlug)
         p == Find(plans, LAMBDA e : e.agentId = agentId)
     IN [agentId |-> agentId,
         agentName |-> formatAgentLabel(roleTable, agentId),
         projectDir |-> IF k = 0 THEN "" ELSE workspaceDir \o "/" \o folderName,
         folderName |-> folderName,
         transcript |-> transcripts[index].transcript,
         plan |-> IF p = 0 THEN "" ELSE plans[p].plan,
         order |-> index]]

\* the options awaitManualVariantSelection offers
SelectionOptions(results) ==
  [index \in 1..Len(results) |->
     [agentId |-> results[index].agentId,
      agentName |-> IF results[index].agentName # "" THEN results[index].agentName
                    ELSE results[index].agentId,
      index |-> index,
      projectDir |-> IF results[index].projectDir # "" THEN results[index].projectDir
                     ELSE "unknown project directory"]]

\* an automatic choice that always takes the first result
autoSelectVariantFirstResult(results, reviewAgentId, roleTable) ==
  [agentId |-> results[1].agentId,
   entry |-> results[1],
   mode |-> "auto",
   rationale |-> "Used first available result ("
                 \o formatAgentLabel(roleTable, results[1].agentId) \o ")."]

\* an automatic choice of the first result that is recorded as a manual one
autoSelectVariantMarkedManual(results, reviewAgentId, roleTable) ==
  [agentId |-> results[1].agentId,
   entry |-> results[1],
   mode |-> "manual",
   rationale |-> "Chosen by user during variant selection."]

\* Coordinator.autoSelectVariant, for a non-empty list of results
autoSelectVariant(results, reviewAgentId, roleTable) ==
  LET preferred == IF reviewAgentId = NoId THEN 0
                   ELSE Find(results, LAMBDA entry : entry.agentId = reviewAgentId)
  IN IF preferred # 0
     THEN [agentId |-> results[preferred].agentId,
           entry |-> results[preferred],
           mode |-> "auto",
           rationale |-> "Defaulted to review agent "
                         \o formatAgentLabel(roleTable, reviewAgentId) \o "."]
     ELSE [agentId |-> results[1].agentId,
           entry |-> results[1],
           mode |-> "auto",
           rationale |-> "Used first available result ("
                         \o formatAgentLabel(roleTable, results[1].agentId) \o ")."]

\* a resolution that answers a delegation to "auto" with the first option
\* offered instead of the automatic strategy
resolveVariantSelectionFirstOption(results, manualResult, reviewAgentId, roleTable) ==
  IF manualResult.type = "manual"
  THEN LET chosen == Find(results, LAMBDA entry : entry.agentId = manualResult.agentId)
       IN IF chosen # 0
          THEN [agentId |-> results[chosen].agentId,
                entry |-> results[chosen],
                mode |-> "manual",
                rationale |-> IF manualResult.note # "" THEN manualResult.note
                              ELSE "Chosen by user during variant selection."]
          ELSE autoSelectVariant(results, reviewAgentId, roleTable)
  ELSE [agentId |-> results[1].agentId,
        entry |-> results[1],
        mode |-> "auto",
        rationale |-> "Used first available result ("
                      \o formatAgentLabel(roleTable, results[1].agentId) \o ")."]

\* Coordinator.resolveVariantSelection after awaitManualVariantSelection has
\* returned manualResult
resolveVariantSelection(results, manualResult, reviewAgentId, roleTable) ==
  IF manualResult.type = "manual"
  THEN LET chosen == Find(results, LAMBDA entry : entry.agentId = manualResult.agentId)
       IN IF chosen # 0
          THEN [agentId |-> results[chosen].agentId,
                entry |-> results[chosen],
                mode |-> "manual",
                rationale |-> IF manualResult.note # "" THEN manualResult.note
                              ELSE "Chosen by user during variant selection."]
          ELSE autoSelectVariant(results, reviewAgentId, roleTable)
  ELSE autoSelectVariant(results, reviewAgentId, roleTable)

\* a matching that numbers the options from 0
MatchOptionZeroBased(options, normalised) ==
  Find(options, LAMBDA option :
         \/ toLowerCase(option.agentId) = normalised
         \/ toLowerCase(option.agentName) = normalised
         \/ String(option.index - 1) = normalised)

\* the option submitVariantSelection matches a normalised value with: index of
\* the first option matched by agent id, agent name or number, 0 when none
MatchOption(options, normalised) ==
  Find(options, LAMBDA option :
         \/ toLowerCase(option.agentId) = normalised
         \/ toLowerCase(option.agentName) = normalised
         \/ String(option.index) = normalised)


(***************************************************************************)
(* Coordinator state machine                                               *)
(***************************************************************************)
\* no runPlanningPhase/runExecutionPhase in progress
IdleRun ==
  [pc |-> "idle", variantRun |-> FALSE, targets |-> <<>>, calls |-> <<>>,
   settled |-> [plans |-> <<>>, allocations |-> <<>>, transcripts |-> <<>>],
   plans |-> <<>>, consolidated |-> "", results |-> <<>>, manualResult |-> NULL, error |-> "",
   requestId |-> NoId, suspended |-> <<>>]

NoCall == [op |-> "none", args |-> NULL, threw |-> FALSE, error |-> "", result |-> NULL]

Threw(op, args, message) == [op |-> op, args |-> args, threw |-> TRUE, error |-> message, result |-> NULL]

Returned(op, args, result) == [op |-> op, args |-> args, threw |-> FALSE, error |-> "", result |-> result]

\* normalisation of a collaboration mode (constructor and setCollaborationMode)
NormalizedMode(m) == IF m = "variant" THEN "variant" ELSE "collaborative"

SettingsChoices ==
  [collaborationMode : {"collaborative", "variant"},
   variantSelectionMode : {"manual", "auto"},
   enableWebSearchAgent : BOOLEAN]

\* the state after `new Coordinator({ config })`
Init ==
  /\ settings \in SettingsChoices
  /\ searchAgentAvailable = FALSE
  /\ activeAgents = <<>>
  /\ mode = NormalizedMode(settings.collaborationMode)
  /\ session = NULL
  /\ pendingVariantSelection = NULL
  /\ run = IdleRun
  /\ planningEvents = <<>>
  /\ lastCall = NoCall
  /\ messageBus = CoordinatorBus
  /\ counters = [requests |-> 0, rejected |-> 0]

\* Coordinator.discoverAgents: checkAvailability of the web-search agent finds
\* its CLI or not; a disabled agent is never available
DiscoverAgents ==
  /\ session = NULL
  /\ \E found \in BOOLEAN :
       searchAgentAvailable' = (settings.enableWebSearchAgent /\ found)
  /\ UNCHANGED <<settings, activeAgents, mode, session, pendingVariantSelection,
                 run, planningEvents, lastCall, counters, messageBus>>

\* the id of the session initializeSession creates
SessionId == Uuid(1)

\* failure.error?.message || String(failure.error), joined
FailureReasons(failures) ==
  Join([i \in 1..Len(failures) |->
          failures[i].agentId \o ": " \o ReasonText(failures[i].error)], "; ")

\* the session object initializeSession stores, roles assigned
NewSession(active, failures) ==
  LET roles == assignRoles(active)
  IN [id |-> SessionId,
      userPrompt |-> UserPrompt,
      agents |-> roles.agents,
      failures |-> failures,
      plan |-> NULL,
      assignments |-> NULL,
      transcripts |-> NULL,
      mode |-> mode,
      variant |-> NULL,
      reviewAgentId |-> roles.reviewAgentId]

\* Coordinator.initializeSession({ agentSelections, userPrompt }); failing are
\* the agents whose initialize throws, selected the agents initializeSelected
\* calls initialize on
InitializeSession(selections) ==
  /\ session = NULL
  /\ \E agentSelections \in selections :
       IF agentSelections = {}
       THEN /\ lastCall' = Threw("initializeSession", [agentSelections |-> agentSelections, selected |-> <<>>, failing |-> {}],
                                "At least one agent must be selected.")
            /\ UNCHANGED <<activeAgents, session>>
       ELSE \E failing \in SUBSET Range(WithSearchAgent(agentSelections, settings, searchAgentAvailable)),
               reason \in Reasons :
              LET selected == WithSearchAgent(agentSelections, settings, searchAgentAvailable)
                  outcome == [id \in AgentIds |->
                                IF id \in failing THEN Rejected(reason) ELSE Fulfilled("")]
                  init == initializeSelected(agentSelections, settings, searchAgentAvailable, outcome)
              IN /\ activeAgents' = init.activeAgents
                 /\ IF Len(init.activeAgents) = 0
                    THEN /\ lastCall' = Threw("initializeSession",
                                [agentSelections |-> agentSelections, selected |-> selected, failing |-> failing],
                                "Selected agents failed to initialise. Check SDK setup and API keys. Details: "
                                \o FailureReasons(init.failures))
                         /\ UNCHANGED session
                    ELSE /\ session' = NewSession(init.activeAgents, init.failures)
                         /\ lastCall' = Returned("initializeSession",
                                [agentSelections |-> agentSelections, selected |-> selected, failing |-> failing],
                                [agents |-> init.activeAgents])
  /\ UNCHANGED <<settings, searchAgentAvailable, mode, pendingVariantSelection,
                 run, planningEvents, counters, messageBus>>

\* pendingVariantSelection.resolve(value): the continuation held by the slot
\* is completed with value, and the invocation of runVariantPlanningPhase
\* that issued the request - the one in progress, or an earlier one that is
\* still suspended in awaitManualVariantSelection - becomes runnable
Resolve(r, value) ==
  LET id == pendingVariantSelection.requestId
  IN IF r.pc = "awaitSelection" /\ r.requestId = id
     THEN [r EXCEPT !.pc = "selectionResolved", !.manualResult = value]
     ELSE [r EXCEPT !.suspended =
             [i \in 1..Len(r.suspended) |->
                IF r.suspended[i].pc = "awaitSelection" /\ r.suspended[i].requestId = id
                THEN [r.suspended[i] EXCEPT !.pc = "selectionResolved", !.manualResult = value]
                ELSE r.suspended[i]]]

\* values callers pass as a collaboration mode
ModeInputs == {"variant", "collaborative", "solo"}

\* a mode change that never touches a pending selection
SetModeKeepingPending(m) ==
  LET normalized == NormalizedMode(m)
  IN /\ mode' = normalized
     /\ session' = IF session # NULL THEN [session EXCEPT !.mode = normalized] ELSE session
     /\ settings' = [settings EXCEPT !.collaborationMode = normalized]
     /\ UNCHANGED <<pendingVariantSelection, run>>
     /\ UNCHANGED <<searchAgentAvailable, activeAgents, planningEvents, lastCall, counters, messageBus>>

\* a mode change that leaves the mode recorded in the session as it was
SetModeLeavingSession(m) ==
  LET normalized == NormalizedMode(m)
  IN /\ mode' = normalized
     /\ settings' = [settings EXCEPT !.collaborationMode = normalized]
     /\ IF normalized # "variant" /\ pendingVariantSelection # NULL
        THEN /\ pendingVariantSelection' = NULL
             /\ run' = Resolve(run, [type |-> "auto", agentId |-> NoId, note |-> ""])
        ELSE UNCHANGED <<pendingVariantSelection, run>>
     /\ UNCHANGED <<searchAgentAvailable, activeAgents, session, planningEvents, lastCall,
                    counters, messageBus>>

\* Coordinator.setCollaborationMode(m); it returns this.mode, the new mode
SetMode(m) ==
  LET normalized == NormalizedMode(m)
  IN /\ mode' = normalized
     /\ session' = IF session # NULL THEN [session EXCEPT !.mode = normalized] ELSE session
     /\ settings' = [settings EXCEPT !.collaborationMode = normalized]
     /\ IF normalized # "variant" /\ pendingVariantSelection # NULL
        THEN /\ pendingVariantSelection' = NULL
             /\ run' = Resolve(run, [type |-> "auto", agentId |-> NoId, note |-> ""])
        ELSE UNCHANGED <<pendingVariantSelection, run>>
     /\ UNCHANGED <<searchAgentAvailable, activeAgents, planningEvents, lastCall, counters, messageBus>>

\* a caller sets the collaboration mode
SetCollaborationMode == \E m \in ModeInputs : SetMode(m)


\* one capability call issued to every active agent (the map of a fan-out)
StartBatch(r, pc) ==
  [r EXCEPT !.pc = pc, !.targets = activeAgents,
            !.calls = [i \in 1..Len(activeAgents) |-> InFlight]]

Event(stage, agentId, body) == [stage |-> stage, agentId |-> agentId, body |-> body]

\* Coordinator.runPlanningPhase up to its first await
RunPlanningPhase ==
  /\ run.pc = "idle"
  /\ IF session = NULL
     THEN /\ lastCall' = Threw("runPlanningPhase", NULL, "Session not initialised")
          /\ UNCHANGED run
     ELSE /\ lastCall' = Returned("runPlanningPhase", NULL, [started |-> mode])
          /\ run' = StartBatch([run EXCEPT !.variantRun = (mode = "variant")],
                               IF mode = "variant" THEN "awaitVariantPlans" ELSE "awaitPlans")
  /\ UNCHANGED <<settings, searchAgentAvailable, activeAgents, mode, session,
                 pendingVariantSelection, planningEvents, counters, messageBus>>

AwaitingCalls == {"awaitPlans", "awaitAllocations", "awaitTranscripts",
                  "awaitVariantPlans", "awaitVariantTranscripts"}

\* the texts a fulfilled call of the batch in flight can carry
BatchTexts ==
  IF run.pc \in {"awaitPlans", "awaitVariantPlans"} THEN PlanTexts
  ELSE IF run.pc = "awaitAllocations" THEN AllocationTexts
  ELSE TranscriptTexts

\* call i is one of the calls of the batch still in flight
IsInFlight(i) ==
  /\ i \in 1..Len(run.calls)
  /\ run.calls[i] = InFlight

\* call i is the only one of the batch still in flight
IsLastInFlight(i) ==
  /\ i \in 1..Len(run.calls)
  /\ run.calls[i] = InFlight
  /\ \A j \in 1..Len(run.calls) : j # i => run.calls[j] # InFlight

\* one worker call settles while others of its batch are still in flight
SettleCall ==
  /\ run.pc \in AwaitingCalls
  /\ \E i \in 1..Len(run.calls), outcome \in CallOutcomes(BatchTexts) :
       /\ run.calls[i] = InFlight
       /\ ~IsLastInFlight(i)
       /\ run' = [run EXCEPT !.calls[i] = outcome]
  /\ UNCHANGED <<settings, searchAgentAvailable, activeAgents, mode, session,
                 pendingVariantSelection, planningEvents, lastCall, counters, messageBus>>

\* a planning that emits the plans and starts the negotiation without
\* emitting the summary
PlansSettledWithoutSummary ==
  /\ run.pc = "awaitPlans"
  /\ \E i \in 1..Len(run.calls), outcome \in CallOutcomes(PlanTexts) :
       /\ IsLastInFlight(i)
       /\ LET calls == [run.calls EXCEPT ![i] = outcome]
              plans == runGeneratePlans(run.targets, calls, activeAgents)
              summary == synthesizePlans(plans, session.agents)
          IN /\ planningEvents' = planningEvents
                   \o [k \in 1..Len(plans) |-> Event("initial-plan", plans[k].agentId, plans[k].plan)]
             /\ run' = StartBatch([run EXCEPT !.plans = plans, !.consolidated = summary,
                                              !.settled.plans = calls],
                                  "awaitAllocations")
  /\ UNCHANGED <<settings, searchAgentAvailable, activeAgents, mode, session,
                 pendingVariantSelection, lastCall, counters, messageBus>>

\* the last generatePlan call settles: runPlanningPhase emits the plans,
\* synthesizes them and starts the negotiation
PlansSettled ==
  /\ run.pc = "awaitPlans"
  /\ \E i \in 1..Len(run.calls), outcome \in CallOutcomes(PlanTexts) :
       /\ IsLastInFlight(i)
       /\ LET calls == [run.calls EXCEPT ![i] = outcome]
              plans == runGeneratePlans(run.targets, calls, activeAgents)
              summary == synthesizePlans(plans, session.agents)
          IN /\ planningEvents' = planningEvents
                   \o [k \in 1..Len(plans) |-> Event("initial-plan", plans[k].agentId, plans[k].plan)]
                   \o <<Event("coordinator-summary", NoId, summary)>>
             /\ run' = StartBatch([run EXCEPT !.plans = plans, !.consolidated = summary,
                                              !.settled.plans = calls],
                                  "awaitAllocations")
  /\ UNCHANGED <<settings, searchAgentAvailable, activeAgents, mode, session,
                 pendingVariantSelection, lastCall, counters, messageBus>>

\* the last negotiateResponsibilities call settles: runPlanningPhase emits the
\* allocations, builds and stores the assignments and returns
AllocationsSettled ==
  /\ run.pc = "awaitAllocations"
  /\ \E i \in 1..Len(run.calls), outcome \in CallOutcomes(AllocationTexts) :
       /\ IsLastInFlight(i)
       /\ LET calls == [run.calls EXCEPT ![i] = outcome]
              allocations == runNegotiation(run.targets, calls, activeAgents)
              assignments == buildAssignments(allocations, session.agents, session.reviewAgentId)
          IN /\ session' = [session EXCEPT
                   !.plan = [initial |-> run.plans,
                             consolidated |-> [summary |-> run.consolidated, variant |-> NULL],
                             allocations |-> allocations,
                             variant |-> NULL],
                   !.assignments = assignments]
             /\ planningEvents' = planningEvents
                   \o [k \in 1..Len(allocations) |->
                         Event("allocation", allocations[k].agentId, allocations[k].allocation)]
                   \o <<Event("final-division", NoId, assignments)>>
             /\ run' = [run EXCEPT !.pc = "planned", !.calls = <<>>, !.targets = <<>>,
                                   !.settled.allocations = calls]
  /\ UNCHANGED <<settings, searchAgentAvailable, activeAgents, mode,
                 pendingVariantSelection, lastCall, counters, messageBus>>

\* an execution phase that starts without asking whether there is a session
\* with assignments
RunExecutionPhaseUnguarded ==
  /\ run.pc \in {"idle", "planned"}
  /\ IF session # NULL /\ mode = "variant"
     THEN /\ lastCall' = Returned("runExecutionPhase", NULL,
               [skipped |-> TRUE,
                transcripts |-> IF session.variant # NULL THEN session.variant.results
                                ELSE IF session.transcripts # NULL THEN session.transcripts
                                ELSE <<>>])
          /\ run' = IF run.pc = "planned" THEN [run EXCEPT !.pc = "complete"] ELSE run
     ELSE /\ lastCall' = Returned("runExecutionPhase", NULL, [skipped |-> FALSE, transcripts |-> <<>>])
          /\ run' = StartBatch(run, "awaitTranscripts")
  /\ UNCHANGED <<settings, searchAgentAvailable, activeAgents, mode, session,
                 pendingVariantSelection, planningEvents, counters, messageBus>>

\* Coordinator.runExecutionPhase up to its await
RunExecutionPhase ==
  /\ run.pc \in {"idle", "planned"}
  /\ IF session = NULL
     THEN /\ lastCall' = Threw("runExecutionPhase", NULL, "Session not initialised")
          /\ UNCHANGED run
     ELSE IF mode = "variant"
     THEN /\ lastCall' = Returned("runExecutionPhase", NULL,
               [skipped |-> TRUE,
                transcripts |-> IF session.variant # NULL THEN session.variant.results
                                ELSE IF session.transcripts # NULL THEN session.transcripts
                                ELSE <<>>])
          /\ run' = IF run.pc = "planned" THEN [run EXCEPT !.pc = "complete"] ELSE run
     ELSE IF session.assignments = NULL
     THEN /\ lastCall' = Threw("runExecutionPhase", NULL, "Assignments not ready")
          /\ run' = IF run.pc = "planned"
                    THEN [run EXCEPT !.pc = "error", !.error = "Assignments not ready"]
                    ELSE run
     ELSE /\ lastCall' = Returned("runExecutionPhase", NULL, [skipped |-> FALSE, transcripts |-> <<>>])
          /\ run' = StartBatch(run, "awaitTranscripts")
  /\ UNCHANGED <<settings, searchAgentAvailable, activeAgents, mode, session,
                 pendingVariantSelection, planningEvents, counters, messageBus>>

\* an execution phase that fails with the reason of a rejected executeTasks
\* call instead of recording a fallback transcript
TranscriptsSettledFailFast ==
  /\ run.pc = "awaitTranscripts"
  /\ \E i \in 1..Len(run.calls), outcome \in CallOutcomes(TranscriptTexts) :
       /\ IsLastInFlight(i)
       /\ LET calls == [run.calls EXCEPT ![i] = outcome]
              transcripts == executeAssignments(run.targets, calls, activeAgents)
          IN IF \E k \in 1..Len(calls) : calls[k].status = "rejected"
             THEN /\ run' = [run EXCEPT !.pc = "error", !.error = "offline",
                                        !.calls = <<>>, !.targets = <<>>,
                                        !.settled.transcripts = calls]
                  /\ UNCHANGED <<session, planningEvents>>
             ELSE /\ session' = [session EXCEPT !.transcripts = transcripts]
                  /\ planningEvents' = planningEvents
                        \o [k \in 1..Len(transcripts) |->
                              Event("execution-transcript", transcripts[k].agentId, transcripts[k].transcript)]
                  /\ run' = [run EXCEPT !.pc = "complete", !.calls = <<>>, !.targets = <<>>,
                                        !.settled.transcripts = calls]
  /\ UNCHANGED <<settings, searchAgentAvailable, activeAgents, mode,
                 pendingVariantSelection, lastCall, counters, messageBus>>

\* the last executeTasks call of the execution phase settles:
\* runExecutionPhase stores and emits the transcripts and returns them
TranscriptsSettled ==
  /\ run.pc = "awaitTranscripts"
  /\ \E i \in 1..Len(run.calls), outcome \in CallOutcomes(TranscriptTexts) :
       /\ IsLastInFlight(i)
       /\ LET calls == [run.calls EXCEPT ![i] = outcome]
              transcripts == executeAssignments(run.targets, calls, activeAgents)
          IN /\ session' = [session EXCEPT !.transcripts = transcripts]
             /\ planningEvents' = planningEvents
                   \o [k \in 1..Len(transcripts) |->
                         Event("execution-transcript", transcripts[k].agentId, transcripts[k].transcript)]
             /\ run' = [run EXCEPT !.pc = "complete", !.calls = <<>>, !.targets = <<>>,
                                   !.settled.transcripts = calls]
  /\ UNCHANGED <<settings, searchAgentAvailable, activeAgents, mode,
                 pendingVariantSelection, lastCall, counters, messageBus>>


\* the last private generatePlan call settles: runVariantPlanningPhase prepares
\* the workspace and one directory and assignment per session agent, then
\* starts the independent executions
VariantPlansSettled ==
  /\ run.pc = "awaitVariantPlans"
  /\ \E i \in 1..Len(run.calls), outcome \in CallOutcomes(PlanTexts) :
       /\ IsLastInFlight(i)
       /\ LET calls == [run.calls EXCEPT ![i] = outcome]
              plans == runGeneratePlans(run.targets, calls, activeAgents)
          IN run' = StartBatch([run EXCEPT !.plans = plans, !.settled.plans = calls],
                               "awaitVariantTranscripts")
  /\ UNCHANGED <<settings, searchAgentAvailable, activeAgents, mode, session,
                 pendingVariantSelection, planningEvents, lastCall, counters, messageBus>>

\* the selection record stored on session.variant and session.plan.variant
StoredSelection(selection) ==
  [agentId |-> selection.agentId,
   rationale |-> selection.rationale,
   mode |-> selection.mode,
   projectDir |-> selection.entry.projectDir]

\* the text of the variant-selected event
SelectedText(selection, roleTable) ==
  Join(<<"Selected variant (" \o (IF selection.mode = "manual" THEN "manual" ELSE "auto") \o "): "
         \o formatAgentLabel(roleTable, selection.agentId)>>
       \o (IF selection.entry.projectDir # ""
           THEN <<"Project directory: " \o selection.entry.projectDir>> ELSE <<>>)
       \o (IF selection.rationale # "" THEN <<"Reason: " \o selection.rationale>> ELSE <<>>),
       "\n")

\* the tail of runVariantPlanningPhase once resolveVariantSelection has
\* returned selection: the session after it
Finalized(sess, selection) ==
  LET consolidated == [summary |-> SelectedText(selection, sess.agents),
                       variant |-> selection.entry]
  IN IF sess.plan.variant # NULL
     THEN [sess EXCEPT
             !.plan.consolidated = consolidated,
             !.variant.selection = StoredSelection(selection),
             !.plan.variant.selection = StoredSelection(selection)]
     ELSE [sess EXCEPT
             !.plan.consolidated = consolidated,
             !.variant.selection = StoredSelection(selection)]

\* the last executeTasks call of a variant run settles: the results are
\* derived, announced and stored, then the selection is resolved - at once by
\* the automatic strategy, or by suspending on a manual selection request
VariantTranscriptsSettled ==
  /\ run.pc = "awaitVariantTranscripts"
  /\ \E i \in 1..Len(run.calls), outcome \in CallOutcomes(TranscriptTexts) :
       /\ IsLastInFlight(i)
       /\ LET calls == [run.calls EXCEPT ![i] = outcome]
              transcripts == executeAssignments(run.targets, calls, activeAgents)
              projectSlug == deriveVariantProjectSlug(session.userPrompt)
              workspaceDir == prepareVariantWorkspace(session.id, projectSlug)
              results == VariantResults(transcripts, run.plans, session.agents, workspaceDir, projectSlug)
              variant == [projectSlug |-> projectSlug, workspaceDir |-> workspaceDir,
                          results |-> results, selection |-> NULL]
              stored == [session EXCEPT
                           !.plan = [initial |-> run.plans, consolidated |-> NULL,
                                     allocations |-> <<>>, variant |-> variant],
                           !.assignments = NULL,
                           !.transcripts = transcripts,
                           !.variant = variant]
              announced == planningEvents \o <<Event("variant-results", "coordinator", "")>>
          IN IF settings.variantSelectionMode = "auto"
             THEN LET selection == autoSelectVariant(results, session.reviewAgentId, session.agents)
                  IN /\ session' = Finalized(stored, selection)
                     /\ planningEvents' = announced
                          \o <<Event("variant-selected", selection.agentId, "")>>
                     /\ run' = [run EXCEPT !.pc = "planned", !.calls = <<>>, !.targets = <<>>,
                                           !.settled.transcripts = calls, !.results = results]
                     /\ UNCHANGED <<pendingVariantSelection, counters, messageBus>>
             ELSE /\ session' = stored
                  /\ planningEvents' = announced
                       \o <<Event("variant-selection-request", "coordinator", "")>>
                  /\ pendingVariantSelection' =
                       [requestId |-> Uuid(counters.requests + 2),
                        options |-> SelectionOptions(results),
                        results |-> results]
                  /\ UNCHANGED messageBus
                  /\ counters' = [counters EXCEPT !.requests = counters.requests + 1]
                  /\ run' = [run EXCEPT !.pc = "awaitSelection", !.calls = <<>>, !.targets = <<>>,
                                        !.settled.transcripts = calls, !.results = results,
                                        !.requestId = Uuid(counters.requests + 2)]
  /\ UNCHANGED <<settings, searchAgentAvailable, activeAgents, mode, lastCall>>

\* a value passed as rawValue: a string, or something that is not a string
Str(text) == [isString |-> TRUE, text |-> text]

NonString == [isString |-> FALSE, text |-> ""]

\* the request ids callers submit: the one of the first request and another
RequestIds == {Uuid(2), Uuid(3)}

\* the raw values callers submit while a request is pending: for every worker
\* offered its number, id, display name and label, in the letter case of the
\* roster or in capitals, "auto", and values that match nothing
RawValues ==
  LET roster == session.agents
      perAgent == UNION {{String(k),
                          roster[k].id,
                          toUpperCase(roster[k].id),
                          roster[k].name,
                          toUpperCase(roster[k].name),
                          formatAgentLabel(roster, roster[k].id)} : k \in 1..Len(roster)}
  IN {Str(t) : t \in perAgent \cup {"auto", " Auto ", "", "  ", "nobody", " 1 "}}
     \cup {NonString}

\* the calls of submitVariantSelection callers make: any raw value with the
\* id of the pending request, and a number or "auto" with an id that is not
\* the pending one or when nothing is pending
Submissions ==
  LET plain == {Str("1"), Str("auto")}
  IN IF pendingVariantSelection = NULL THEN RequestIds \X plain
     ELSE ({pendingVariantSelection.requestId} \X RawValues)
          \cup ((RequestIds \ {pendingVariantSelection.requestId}) \X plain)

\* a rejection that also drops the pending request
SubmissionRejectedDroppingPending(requestId, rawValue, error) ==
  /\ lastCall' = Returned("submitVariantSelection",
                          [requestId |-> requestId, rawValue |-> rawValue],
                          [success |-> FALSE, error |-> error, mode |-> "", agentId |-> NoId])
  /\ UNCHANGED messageBus
  /\ counters' = IF pendingVariantSelection # NULL /\ counters.rejected < MaxRejected
                 THEN [counters EXCEPT !.rejected = counters.rejected + 1]
                 ELSE counters
  /\ pendingVariantSelection' = NULL
  /\ UNCHANGED run

\* submitVariantSelection returns { success: false, error }
SubmissionRejected(requestId, rawValue, error) ==
  /\ lastCall' = Returned("submitVariantSelection",
                          [requestId |-> requestId, rawValue |-> rawValue],
                          [success |-> FALSE, error |-> error, mode |-> "", agentId |-> NoId])
  /\ UNCHANGED messageBus
  /\ counters' = IF pendingVariantSelection # NULL /\ counters.rejected < MaxRejected
                 THEN [counters EXCEPT !.rejected = counters.rejected + 1]
                 ELSE counters
  /\ UNCHANGED <<pendingVariantSelection, run>>

\* a successful submission that leaves the request in the slot
SubmissionResolvedKeepingPending(requestId, rawValue, resolution, result) ==
  /\ run' = Resolve(run, resolution)
  /\ lastCall' = Returned("submitVariantSelection",
                          [requestId |-> requestId, rawValue |-> rawValue], result)
  /\ UNCHANGED <<pendingVariantSelection, counters, messageBus>>

\* submitVariantSelection resolves the pending promise, clears the slot and
\* returns result
SubmissionResolved(requestId, rawValue, resolution, result) ==
  /\ run' = Resolve(run, resolution)
  /\ pendingVariantSelection' = NULL
  /\ lastCall' = Returned("submitVariantSelection",
                          [requestId |-> requestId, rawValue |-> rawValue], result)
  /\ UNCHANGED <<counters, messageBus>>

\* Coordinator.submitVariantSelection(requestId, rawValue)
Submit(requestId, rawValue) ==
  LET pending == pendingVariantSelection
      value == IF rawValue.isString THEN trim(rawValue.text) ELSE ""
      normalised == toLowerCase(value)
  IN /\ IF pending = NULL \/ pending.requestId # requestId
        THEN SubmissionRejected(requestId, rawValue, "No active variant selection request.")
        ELSE IF value = ""
        THEN SubmissionRejected(requestId, rawValue, "Please enter a selection.")
        ELSE IF normalised = "auto"
        THEN SubmissionResolved(requestId, rawValue,
                                [type |-> "auto", agentId |-> NoId, note |-> ""],
                                [success |-> TRUE, error |-> "", mode |-> "auto", agentId |-> NoId])
        ELSE LET match == MatchOption(pending.options, normalised)
             IN IF match = 0
                THEN SubmissionRejected(requestId, rawValue,
                                        "Unrecognised selection \"" \o value
                                        \o "\". Choose by number, agent id, agent name, or \"auto\".")
                ELSE SubmissionResolved(requestId, rawValue,
                                        [type |-> "manual", agentId |-> pending.options[match].agentId,
                                         note |-> "User selected " \o pending.options[match].agentName \o "."],
                                        [success |-> TRUE, error |-> "", mode |-> "manual",
                                         agentId |-> pending.options[match].agentId])
     /\ UNCHANGED <<settings, searchAgentAvailable, activeAgents, mode, session, planningEvents>>

\* a caller submits a selection; request ids are random, so callers submit
\* only once a request has been issued
SubmitVariantSelection ==
  /\ counters.requests > 0
  /\ \E submission \in Submissions : Submit(submission[1], submission[2])

\* the suspended runVariantPlanningPhase resumes with the value its pending
\* promise was resolved with, finalizes the selection and returns
ResumeVariantSelection ==
  /\ run.pc = "selectionResolved"
  /\ LET selection == resolveVariantSelection(run.results, run.manualResult,
                                               session.reviewAgentId, session.agents)
     IN /\ session' = Finalized(session, selection)
        /\ planningEvents' = planningEvents \o <<Event("variant-selected", selection.agentId, "")>>
        /\ run' = [run EXCEPT !.pc = "planned"]
  /\ UNCHANGED <<settings, searchAgentAvailable, activeAgents, mode,
                 pendingVariantSelection, lastCall, counters, messageBus>>

\* a coordinator with the default web-search setting that is used without a
\* discovery pass: the web-search agent joins only when it is selected
InitUndiscovered == Init /\ settings.enableWebSearchAgent

\* the agent selections passed to initializeSession in the pipeline runs
PipelineSelections == {{}, {"claude"}, {"claude", "codex"}, {"codex", "gemini"}}

Next ==
  \/ InitializeSession(PipelineSelections)
  \/ SetCollaborationMode
  \/ RunPlanningPhase
  \/ SettleCall
  \/ PlansSettled
  \/ AllocationsSettled
  \/ RunExecutionPhase
  \/ TranscriptsSettled
  \/ VariantPlansSettled
  \/ VariantTranscriptsSettled
  \/ SubmitVariantSelection
  \/ ResumeVariantSelection

Spec == InitUndiscovered /\ [][Next]_vars

(***************************************************************************)
(* Session initialization on its own: discovery, then initializeSession    *)
(* with any selection of at most MaxSelected ids, known or not             *)
(***************************************************************************)
AllSelections ==
  {sel \in SUBSET (AgentIds \cup {"nobody"}) : Cardinality(sel) <= MaxSelected}

NextInit ==
  \/ DiscoverAgents
  \/ InitializeSession(AllSelections)

SpecInit == Init /\ [][NextInit]_vars

(***************************************************************************)
(* autoSelectVariant on its own: a session whose roles were assigned to    *)
(* one roster, and variant results returned for the agents of another      *)
(***************************************************************************)
\* the rosters of at most MaxSelected agents, in registration order
Rosters ==
  {SelectedOf(sel) : sel \in {x \in SUBSET AgentIds : Cardinality(x) <= MaxSelected}}

InitAuto ==
  /\ settings = [collaborationMode |-> "variant", variantSelectionMode |-> "auto",
                 enableWebSearchAgent |-> TRUE]
  /\ searchAgentAvailable = FALSE
  /\ mode = "variant"
  /\ pendingVariantSelection = NULL
  /\ planningEvents = <<>>
  /\ lastCall = NoCall
  /\ messageBus = CoordinatorBus
  /\ counters = [requests |-> 0, rejected |-> 0]
  /\ \E sessionRoster \in Rosters \ {<<>>}, resultRoster \in Rosters :
       LET sess == NewSession(sessionRoster, <<>>)
           projectSlug == deriveVariantProjectSlug(sess.userPrompt)
           transcripts == [i \in 1..Len(resultRoster) |->
                             [agentId |-> resultRoster[i], transcript |-> "Done: files written"]]
       IN /\ activeAgents = resultRoster
          /\ session = sess
          /\ run = [IdleRun EXCEPT
                      !.pc = "autoSelect", !.variantRun = TRUE,
                      !.results = VariantResults(transcripts, <<>>, sess.agents,
                                                 prepareVariantWorkspace(sess.id, projectSlug),
                                                 projectSlug)]

\* Coordinator.autoSelectVariant(results) is called
CallAutoSelectVariant ==
  /\ run.pc = "autoSelect"
  /\ IF Len(run.results) = 0
     THEN lastCall' = Threw("autoSelectVariant", NULL, "No variant results available for selection.")
     ELSE lastCall' = Returned("autoSelectVariant", NULL,
                               autoSelectVariant(run.results, session.reviewAgentId, session.agents))
  /\ run' = [run EXCEPT !.pc = "autoSelected"]
  /\ UNCHANGED <<settings, searchAgentAvailable, activeAgents, mode, session,
                 pendingVariantSelection, planningEvents, counters, messageBus>>

NextAuto == CallAutoSelectVariant

SpecAuto == InitAuto /\ [][NextAuto]_vars

(***************************************************************************)
(* Overlapping invocations: runPlanningPhase is called again while an      *)
(* earlier invocation is suspended on its manual selection request         *)
(***************************************************************************)
\* most invocations that are left suspended behind the one in progress
MaxSuspended == 1

\* what a suspended invocation of runVariantPlanningPhase keeps: the id of
\* its request, its results and, once resolved, the value it resumes with
SuspendedOf(r) ==
  [requestId |-> r.requestId, pc |-> r.pc, results |-> r.results,
   manualResult |-> r.manualResult]

\* Coordinator.runPlanningPhase up to its first await, called while the
\* previous invocation is suspended in awaitManualVariantSelection
RunPlanningPhaseWhileSuspended ==
  /\ run.pc = "awaitSelection"
  /\ Len(run.suspended) < MaxSuspended
  /\ session # NULL
  /\ lastCall' = Returned("runPlanningPhase", NULL, [started |-> mode])
  /\ run' = StartBatch([IdleRun EXCEPT !.variantRun = (mode = "variant"),
                                       !.suspended = Append(run.suspended, SuspendedOf(run))],
                       IF mode = "variant" THEN "awaitVariantPlans" ELSE "awaitPlans")
  /\ UNCHANGED <<settings, searchAgentAvailable, activeAgents, mode, session,
                 pendingVariantSelection, planningEvents, counters, messageBus>>

\* an earlier invocation whose pending promise was resolved resumes behind
\* the one in progress, finalizes its selection on the session and returns
ResumeSuspended ==
  \E i \in 1..Len(run.suspended) :
    /\ run.suspended[i].pc = "selectionResolved"
    /\ LET selection == resolveVariantSelection(run.suspended[i].results,
                                                 run.suspended[i].manualResult,
                                                 session.reviewAgentId, session.agents)
       IN /\ session' = Finalized(session, selection)
          /\ planningEvents' = planningEvents \o <<Event("variant-selected", selection.agentId, "")>>
          /\ run' = [run EXCEPT !.suspended[i].pc = "planned"]
    /\ UNCHANGED <<settings, searchAgentAvailable, activeAgents, mode,
                   pendingVariantSelection, lastCall, counters, messageBus>>

\* a session of claude alone in variant mode with manual selection whose
\* runPlanningPhase has reached the independent execution: the executeTasks
\* call is in flight
InitOverlap ==
  LET roster == SelectedOf({"claude"})
      planned == [i \in 1..Len(roster) |-> Fulfilled("Plan: split the work")]
  IN /\ settings = [collaborationMode |-> "variant", variantSelectionMode |-> "manual",
                    enableWebSearchAgent |-> TRUE]
     /\ searchAgentAvailable = FALSE
     /\ mode = "variant"
     /\ activeAgents = roster
     /\ session = [NewSession(roster, <<>>) EXCEPT !.mode = "variant"]
     /\ pendingVariantSelection = NULL
     /\ planningEvents = <<>>
     /\ lastCall = Returned("runPlanningPhase", NULL, [started |-> "variant"])
     /\ messageBus = CoordinatorBus
     /\ counters = [requests |-> 0, rejected |-> 0]
     /\ run = [IdleRun EXCEPT
                 !.pc = "awaitVariantTranscripts", !.variantRun = TRUE,
                 !.targets = roster,
                 !.calls = <<InFlight>>,
                 !.plans = runGeneratePlans(roster, planned, roster),
                 !.settled.plans = planned]

\* a caller submits the number of the first option or "auto", with the id of
\* the first or of the second request
SubmitNumberOrAuto ==
  /\ counters.requests > 0
  /\ \E requestId \in RequestIds, rawValue \in {Str("1"), Str("auto")} :
       Submit(requestId, rawValue)

NextOverlap ==
  \/ SetCollaborationMode
  \/ RunPlanningPhaseWhileSuspended
  \/ PlansSettled
  \/ AllocationsSettled
  \/ RunExecutionPhase
  \/ TranscriptsSettled
  \/ VariantPlansSettled
  \/ VariantTranscriptsSettled
  \/ SubmitNumberOrAuto
  \/ ResumeVariantSelection
  \/ ResumeSuspended

SpecOverlap == InitOverlap /\ [][NextOverlap]_vars

(***************************************************************************)
(* Team messages: BaseAgent.sendTeamMessage builds the payload, the bus     *)
(* hands it to Coordinator.handleTeamMessage, and the registry resolves    *)
(* and serves the recipients. A missing scope or target (undefined, null)  *)
(* is the empty string                                                     *)
(***************************************************************************)
\* a registry that returns the sender among the other agents
determineRecipientsIncludingSender(active, message) ==
  LET others == active
      scope == toLowerCase(IF message.scope # "" THEN message.scope ELSE "auto")
      target == IF message.to = "" THEN 0
                ELSE Find(others, LAMBDA id : id = message.to \/ getAgentById(id).name = message.to)
  IN IF Len(others) = 0 THEN <<>>
     ELSE IF Len(others) = 1 THEN others
     ELSE IF scope = "direct" \/ (scope = "auto" /\ message.to # "")
     THEN IF target # 0 THEN <<others[target]>> ELSE others
     ELSE others

\* a registry that resolves a target by display name only
determineRecipientsByNameOnly(active, message) ==
  LET others == SelectSeq(active, LAMBDA id : id # message.from)
      scope == toLowerCase(IF message.scope # "" THEN message.scope ELSE "auto")
      target == IF message.to = "" THEN 0
                ELSE Find(others, LAMBDA id : getAgentById(id).name = message.to)
  IN IF Len(others) = 0 THEN <<>>
     ELSE IF Len(others) = 1 THEN others
     ELSE IF scope = "direct" \/ (scope = "auto" /\ message.to # "")
     THEN IF target # 0 THEN <<others[target]>> ELSE others
     ELSE others

\* a registry that drops a message whose target it cannot resolve
determineRecipientsDroppingUnresolved(active, message) ==
  LET others == SelectSeq(active, LAMBDA id : id # message.from)
      scope == toLowerCase(IF message.scope # "" THEN message.scope ELSE "auto")
      target == IF message.to = "" THEN 0
                ELSE Find(others, LAMBDA id : id = message.to \/ getAgentById(id).name = message.to)
  IN IF Len(others) = 0 THEN <<>>
     ELSE IF Len(others) = 1 THEN others
     ELSE IF scope = "direct" \/ (scope = "auto" /\ message.to # "")
     THEN IF target # 0 THEN <<others[target]>> ELSE <<>>
     ELSE others

\* a registry that hands a group message to the first of the others
determineRecipientsGroupToFirst(active, message) ==
  LET others == SelectSeq(active, LAMBDA id : id # message.from)
      scope == toLowerCase(IF message.scope # "" THEN message.scope ELSE "auto")
      target == IF message.to = "" THEN 0
                ELSE Find(others, LAMBDA id : id = message.to \/ getAgentById(id).name = message.to)
  IN IF Len(others) = 0 THEN <<>>
     ELSE IF Len(others) = 1 THEN others
     ELSE IF scope = "direct" \/ (scope = "auto" /\ message.to # "")
     THEN IF target # 0 THEN <<others[target]>> ELSE others
     ELSE <<others[1]>>

\* AgentRegistry.determineRecipientsForMessage(message) over this.activeAgents:
\* the ids of the recipients, in the order of the active list
determineRecipientsForMessage(active, message) ==
  LET others == SelectSeq(active, LAMBDA id : id # message.from)
      scope == toLowerCase(IF message.scope # "" THEN message.scope ELSE "auto")
      \* resolveTarget(message.to): index among the others, 0 for null
      target == IF message.to = "" THEN 0
                ELSE Find(others, LAMBDA id : id = message.to \/ getAgentById(id).name = message.to)
  IN IF Len(others) = 0 THEN <<>>
     ELSE IF Len(others) = 1 THEN others
     ELSE IF scope = "direct" \/ (scope = "auto" /\ message.to # "")
     THEN IF target # 0 THEN <<others[target]>> ELSE others
     ELSE IF scope = "group" THEN others
     ELSE others

\* AgentRegistry.dispatchTeamMessage(message): every recipient receives the
\* message through receiveTeamMessage, a recipient whose receiveTeamMessage
\* throws included; the recipients are returned
dispatchTeamMessage(active, message) == determineRecipientsForMessage(active, message)

\* Coordinator.handleTeamMessage(message): the recipients it reports
handleTeamMessage(sess, active, message) ==
  IF sess # NULL THEN dispatchTeamMessage(active, message) ELSE <<>>

\* BaseAgent.setTeamRoster(roster): teamRoster as the set of its ids and
\* teamRosterLower, where a later entry of the roster replaces an earlier one
\* under the same key
setTeamRoster(roster) ==
  LET entries == SelectSeq(roster, LAMBDA e : e.id # "")
      DisplayName(e) == IF e.name # "" THEN e.name ELSE e.id
      KeysOf(e) == {toLowerCase(e.id), toLowerCase(DisplayName(e))}
      keys == UNION {KeysOf(entries[i]) : i \in 1..Len(entries)}
  IN [teamRoster |-> {entries[i].id : i \in 1..Len(entries)},
      teamRosterLower |->
        [key \in keys |->
           entries[CHOOSE i \in 1..Len(entries) :
                     /\ key \in KeysOf(entries[i])
                     /\ \A j \in 1..Len(entries) : key \in KeysOf(entries[j]) => j <= i].id]]

\* an identifier looked up under the key as it was written
resolveAgentIdentifierCaseSensitive(team, identifier) ==
  IF identifier = "" THEN ""
  ELSE IF identifier \in DOMAIN team.teamRosterLower
       THEN team.teamRosterLower[identifier]
       ELSE identifier

\* BaseAgent.resolveAgentIdentifier(identifier), team being what setTeamRoster
\* stored
resolveAgentIdentifier(team, identifier) ==
  IF identifier = "" THEN ""
  ELSE LET key == toLowerCase(identifier)
       IN IF key \in DOMAIN team.teamRosterLower
          THEN team.teamRosterLower[key]
          ELSE identifier

\* BaseAgent.sendTeamMessage(message, options) of the agent sender: the
\* payload it emits on the bus, NULL when the text is blank
sendTeamMessage(sender, team, message, options) ==
  IF trim(message) = "" THEN NULL
  ELSE LET potentialTo == IF options.to # "" THEN resolveAgentIdentifier(team, options.to) ELSE ""
           resolvedTo == IF potentialTo # "" /\ potentialTo \in team.teamRoster
                         THEN potentialTo ELSE ""
           scope == IF resolvedTo # "" THEN "direct"
                    ELSE IF options.scope # "" THEN options.scope ELSE "auto"
       IN [from |-> sender,
           fromName |-> getAgentById(sender).name,
           message |-> SubSeq(message, 1, IF Len(message) < 800 THEN Len(message) ELSE 800),
           scope |-> scope,
           to |-> resolvedTo]

\* most agents active in a session that exchanges team messages
MaxActive == 3

\* the active lists of 1 to MaxActive agents, in registration order
ActiveLists ==
  {SelectedOf(sel) : sel \in {x \in SUBSET AgentIds : Cardinality(x) \in 1..MaxActive}}

\* the scopes a message declares: missing, the three scopes, in another
\* letter case, and a word that is no scope
Scopes == {"", "direct", "group", "auto", "GROUP", "note"}

\* the targets a message names: missing, the id of every agent of the
\* registry, the display names of the active agents as written, in small
\* letters and in capitals, and a name nobody has
Targets(active) ==
  {""} \cup AgentIds \cup {"nobody"}
  \cup UNION {{getAgentById(active[i]).name,
               toLowerCase(getAgentById(active[i]).name),
               toUpperCase(getAgentById(active[i]).name)} : i \in 1..Len(active)}

\* a session whose agents were initialised and given the team roster
\* (applyTeamRoster); no message has been sent yet
InitRoute ==
  /\ settings = [collaborationMode |-> "collaborative", variantSelectionMode |-> "manual",
                 enableWebSearchAgent |-> TRUE]
  /\ searchAgentAvailable = FALSE
  /\ mode = "collaborative"
  /\ activeAgents \in ActiveLists
  /\ session = NewSession(activeAgents, <<>>)
  /\ pendingVariantSelection = NULL
  /\ planningEvents = <<>>
  /\ lastCall = NoCall
  /\ messageBus = CoordinatorBus
  /\ counters = [requests |-> 0, rejected |-> 0]
  /\ run = [IdleRun EXCEPT !.pc = "messaging"]

\* an active agent calls sendTeamMessage(message, options); the bus hands the
\* payload to Coordinator.handleTeamMessage, which dispatches it
SendTeamMessage ==
  /\ run.pc = "messaging"
  /\ \E sender \in Range(activeAgents),
        scope \in Scopes,
        to \in Targets(activeAgents),
        message \in {"Ready for review hand-off.", "  "} :
       LET options == [scope |-> scope, to |-> to]
           payload == sendTeamMessage(sender, setTeamRoster(session.agents), message, options)
       IN /\ message = "  " => (scope = "group" /\ to = "")
          /\ lastCall' = Returned("sendTeamMessage",
                                  [from |-> sender, message |-> message, options |-> options],
                                  [payload |-> payload,
                                   recipients |-> IF payload = NULL THEN <<>>
                                                  ELSE handleTeamMessage(session, activeAgents, payload)])
  /\ run' = [run EXCEPT !.pc = "delivered"]
  /\ UNCHANGED <<settings, searchAgentAvailable, activeAgents, mode, session,
                 pendingVariantSelection, planningEvents, counters, messageBus>>

\* AgentRegistry.dispatchTeamMessage(message) is called with any message,
\* from an active agent or from somebody else
DispatchTeamMessage ==
  /\ run.pc = "messaging"
  /\ \E from \in Range(activeAgents) \cup {"nobody"},
        scope \in Scopes,
        to \in Targets(activeAgents) :
       LET message == [from |-> from, fromName |-> from,
                       message |-> "Ready for review hand-off.",
                       scope |-> scope, to |-> to]
       IN lastCall' = Returned("dispatchTeamMessage", message,
                               [payload |-> message,
                                recipients |-> dispatchTeamMessage(activeAgents, message)])
  /\ run' = [run EXCEPT !.pc = "delivered"]
  /\ UNCHANGED <<settings, searchAgentAvailable, activeAgents, mode, session,
                 pendingVariantSelection, planningEvents, counters, messageBus>>

NextRoute ==
  \/ SendTeamMessage
  \/ DispatchTeamMessage

SpecRoute == InitRoute /\ [][NextRoute]_vars

(***************************************************************************)
(* assignRoles on its own: a session over agent objects with any role      *)
(* profiles; in this specification activeAgents holds the agent objects    *)
(***************************************************************************)
\* most agent objects passed to assignRoles
MaxProfiles == 3

\* the review priorities of the profiles: below zero, and values that tie
\* with one another once a review preference adds its ten
ReviewPriorities == {0 - 1, 0, 1, 10, 11}

RoleProfiles ==
  [primary : {"Implementation"}, secondary : {""},
   reviewPreferred : BOOLEAN, reviewPriority : ReviewPriorities]

\* the ids the agent objects carry, in one order and in the opposite one
WorkerIds == {<<"w1", "w2", "w3", "w4">>, <<"w4", "w3", "w2", "w1">>}

\* the lists of 1 to MaxProfiles agent objects
AgentObjectLists ==
  UNION {{[i \in 1..n |-> [id |-> ids[i], name |-> "Worker " \o ids[i], roleProfile |-> profiles[i]]] :
            ids \in WorkerIds, profiles \in [1..n -> RoleProfiles]} : n \in 1..MaxProfiles}

\* initializeSession has stored the session object and is about to call
\* assignRoles(activeAgents)
InitRoles ==
  /\ settings = [collaborationMode |-> "collaborative", variantSelectionMode |-> "manual",
                 enableWebSearchAgent |-> TRUE]
  /\ searchAgentAvailable = FALSE
  /\ mode = "collaborative"
  /\ activeAgents \in AgentObjectLists
  /\ session = [id |-> SessionId,
                userPrompt |-> UserPrompt,
                agents |-> [i \in 1..Len(activeAgents) |->
                              [id |-> activeAgents[i].id, name |-> activeAgents[i].name]],
                failures |-> <<>>,
                plan |-> NULL,
                assignments |-> NULL,
                transcripts |-> NULL,
                mode |-> "collaborative",
                variant |-> NULL,
                reviewAgentId |-> NoId]
  /\ pendingVariantSelection = NULL
  /\ planningEvents = <<>>
  /\ lastCall = NoCall
  /\ messageBus = CoordinatorBus
  /\ counters = [requests |-> 0, rejected |-> 0]
  /\ run = [IdleRun EXCEPT !.pc = "assignRoles"]

\* Coordinator.assignRoles(activeAgents)
AssignRoles ==
  /\ run.pc = "assignRoles"
  /\ LET roles == assignRolesOver(activeAgents)
     IN /\ session' = [session EXCEPT !.agents = roles.agents,
                                      !.reviewAgentId = roles.reviewAgentId]
        /\ lastCall' = Returned("assignRoles", NULL, NULL)
  /\ run' = [run EXCEPT !.pc = "rolesAssigned"]
  /\ UNCHANGED <<settings, searchAgentAvailable, activeAgents, mode,
                 pendingVariantSelection, planningEvents, counters, messageBus>>

NextRoles == AssignRoles

SpecRoles == InitRoles /\ [][NextRoles]_vars

(***************************************************************************)
(* The workspace loop of runVariantPlanningPhase on its own: a session     *)
(* over agents with any distinct names and any task string                 *)
(***************************************************************************)
\* the loop over session.agents: the folder and the project directory
\* prepared for each agent
VariantDirectories(roleTable, workspaceDir, projectSlug) ==
  [i \in 1..Len(roleTable) |->
     LET folderName == buildAgentFolderName(IF roleTable[i].name # "" THEN roleTable[i].name
                                            ELSE roleTable[i].id, projectSlug)
     IN [agentId |-> roleTable[i].id,
         folderName |-> folderName,
         projectDir |-> workspaceDir \o "/" \o folderName]]

\* most agents of a session whose directories are prepared
MaxNamed == 3

\* the names agents carry
AgentNames == {"Claude Code", "claude-code", "Codex CLI", "Reviewer #1", "Reviewer #2", "!!!"}

\* the task strings of a session
TaskStrings == {"", "Build an auth API", "Fix bug #42: login fails!"}

\* the lists of 2 to MaxNamed agent objects with pairwise distinct names
NamedAgentLists ==
  UNION {{[i \in 1..n |-> [id |-> "w" \o String(i), name |-> names[i],
                           roleProfile |-> [primary |-> "Implementation", secondary |-> "",
                                            reviewPreferred |-> FALSE, reviewPriority |-> 0]]] :
            names \in {f \in [1..n -> AgentNames] :
                         \A i, j \in 1..n : i # j => f[i] # f[j]}} : n \in 2..MaxNamed}

\* a variant run has gathered the private plans and is about to prepare the
\* workspace; in this specification activeAgents holds the agent objects
InitFolders ==
  /\ settings = [collaborationMode |-> "variant", variantSelectionMode |-> "manual",
                 enableWebSearchAgent |-> TRUE]
  /\ searchAgentAvailable = FALSE
  /\ mode = "variant"
  /\ activeAgents \in NamedAgentLists
  /\ \E prompt \in TaskStrings :
       session = [id |-> SessionId,
                  userPrompt |-> prompt,
                  agents |-> assignRolesOver(activeAgents).agents,
                  failures |-> <<>>,
                  plan |-> NULL,
                  assignments |-> NULL,
                  transcripts |-> NULL,
                  mode |-> "variant",
                  variant |-> NULL,
                  reviewAgentId |-> assignRolesOver(activeAgents).reviewAgentId]
  /\ pendingVariantSelection = NULL
  /\ planningEvents = <<>>
  /\ lastCall = NoCall
  /\ messageBus = CoordinatorBus
  /\ counters = [requests |-> 0, rejected |-> 0]
  /\ run = [IdleRun EXCEPT !.pc = "variantWorkspace", !.variantRun = TRUE]

\* runVariantPlanningPhase derives the project slug, prepares the workspace
\* and one directory per session agent
PrepareVariantDirectories ==
  /\ run.pc = "variantWorkspace"
  /\ LET projectSlug == deriveVariantProjectSlug(session.userPrompt)
         workspaceDir == prepareVariantWorkspace(session.id, projectSlug)
     IN lastCall' = Returned("prepareVariantDirectories", NULL,
                             VariantDirectories(session.agents, workspaceDir, projectSlug))
  /\ run' = [run EXCEPT !.pc = "variantDirectories"]
  /\ UNCHANGED <<settings, searchAgentAvailable, activeAgents, mode, session,
                 pendingVariantSelection, planningEvents, counters, messageBus>>

NextFolders == PrepareVariantDirectories

SpecFolders == InitFolders /\ [][NextFolders]_vars

(***************************************************************************)
(* The timeout handed to executeAssignments by a variant run and by the    *)
(* execution phase of a collaborative run                                  *)
(***************************************************************************)
\* config.preferences?.actionTimeoutMs as the configuration carries it:
\* absent, no limit, one minute, five minutes
ActionTimeouts ==
  {[present |-> FALSE, ms |-> 0]} \cup {[present |-> TRUE, ms |-> n] : n \in {0, 60000, 300000}}

\* this.config.preferences?.actionTimeoutMs || 0
VariantTimeoutMs(actionTimeoutMs) ==
  IF actionTimeoutMs.present /\ actionTimeoutMs.ms # 0 THEN actionTimeoutMs.ms ELSE 0

\* the executeTasks calls executeAssignments(assignments, { timeoutMs })
\* issues, one per active agent
ExecuteTasksCalls(active, assignments, timeoutMs) ==
  [i \in 1..Len(active) |->
     [agentId |-> active[i],
      capability |-> "executeTasks",
      assignments |-> IF active[i] \in DOMAIN assignments THEN assignments[active[i]] ELSE "",
      timeoutMs |-> timeoutMs]]

\* the assignments of a variant run, one per session agent
VariantAssignments(roleTable, workspaceDir, projectSlug, userPrompt) ==
  LET directories == VariantDirectories(roleTable, workspaceDir, projectSlug)
  IN [agentId \in {roleTable[i].id : i \in 1..Len(roleTable)} |->
        LET i == CHOOSE k \in 1..Len(roleTable) : roleTable[k].id = agentId
        IN buildVariantAssignment(IF roleTable[i].name # "" THEN roleTable[i].name
                                  ELSE roleTable[i].id,
                                  directories[i].projectDir, userPrompt)]

\* a run of either mode is about to hand its assignments to
\* executeAssignments; in this specification settings also carries
\* config.preferences.actionTimeoutMs
InitTimeout ==
  /\ \E m \in {"variant", "collaborative"}, timeout \in ActionTimeouts :
       /\ settings = [collaborationMode |-> m, variantSelectionMode |-> "manual",
                      enableWebSearchAgent |-> TRUE, actionTimeoutMs |-> timeout]
       /\ mode = m
  /\ searchAgentAvailable = FALSE
  /\ activeAgents \in ActiveLists
  /\ session = IF mode = "variant" THEN NewSession(activeAgents, <<>>)
               ELSE [NewSession(activeAgents, <<>>) EXCEPT
                       !.assignments = buildAssignments(
                          [i \in 1..Len(activeAgents) |->
                             [agentId |-> activeAgents[i],
                              allocation |-> "I will take the core module"]],
                          assignRoles(activeAgents).agents,
                          assignRoles(activeAgents).reviewAgentId)]
  /\ pendingVariantSelection = NULL
  /\ planningEvents = <<>>
  /\ lastCall = NoCall
  /\ messageBus = CoordinatorBus
  /\ counters = [requests |-> 0, rejected |-> 0]
  /\ run = [IdleRun EXCEPT !.pc = IF mode = "variant" THEN "variantWorkspace" ELSE "planned",
                           !.variantRun = (mode = "variant")]

\* runVariantPlanningPhase, Variant Step 3: the assignments are handed to
\* executeAssignments with the configured action timeout
ExecuteVariantAssignments ==
  /\ run.pc = "variantWorkspace"
  /\ run.variantRun
  /\ LET projectSlug == deriveVariantProjectSlug(session.userPrompt)
         workspaceDir == prepareVariantWorkspace(session.id, projectSlug)
         assignments == VariantAssignments(session.agents, workspaceDir, projectSlug,
                                           session.userPrompt)
         timeoutMs == VariantTimeoutMs(settings.actionTimeoutMs)
     IN lastCall' = Returned("executeAssignments", [timeoutMs |-> timeoutMs],
                             ExecuteTasksCalls(activeAgents, assignments, timeoutMs))
  /\ run' = StartBatch(run, "awaitVariantTranscripts")
  /\ UNCHANGED <<settings, searchAgentAvailable, activeAgents, mode, session,
                 pendingVariantSelection, planningEvents, counters, messageBus>>

\* runExecutionPhase of a collaborative run: the stored assignments are handed
\* to executeAssignments with { timeoutMs: 0 }
ExecuteStoredAssignments ==
  /\ run.pc = "planned"
  /\ mode # "variant"
  /\ session.assignments # NULL
  /\ lastCall' = Returned("executeAssignments", [timeoutMs |-> 0],
                          ExecuteTasksCalls(activeAgents, session.assignments, 0))
  /\ run' = StartBatch(run, "awaitTranscripts")
  /\ UNCHANGED <<settings, searchAgentAvailable, activeAgents, mode, session,
                 pendingVariantSelection, planningEvents, counters, messageBus>>

NextTimeout ==
  \/ ExecuteVariantAssignments
  \/ ExecuteStoredAssignments

SpecTimeout == InitTimeout /\ [][NextTimeout]_vars

(***************************************************************************)
(* One fan-out batch on its own: the worker calls settle one at a time in  *)
(* any order, and the registry maps the settled results to entries         *)
(***************************************************************************)
\* the fan-outs of the registry, by the position of the run awaiting them
FanOuts == {"awaitPlans", "awaitAllocations", "awaitTranscripts"}

\* the name of the registry method awaited at pc
FanOutName(pc) ==
  IF pc = "awaitPlans" THEN "runGeneratePlans"
  ELSE IF pc = "awaitAllocations" THEN "runNegotiation"
  ELSE "executeAssignments"

\* results.map((result, index) => ...) of the fan-out awaited at pc
FanOutEntries(pc, targets, calls, active) ==
  IF pc = "awaitPlans" THEN runGeneratePlans(targets, calls, active)
  ELSE IF pc = "awaitAllocations" THEN runNegotiation(targets, calls, active)
  ELSE executeAssignments(targets, calls, active)

\* a fan-out has issued one call to each active agent; lastCall.args.order
\* lists the positions of the calls in the order they settle
InitBatch ==
  /\ settings = [collaborationMode |-> "collaborative", variantSelectionMode |-> "manual",
                 enableWebSearchAgent |-> TRUE]
  /\ searchAgentAvailable = FALSE
  /\ mode = "collaborative"
  /\ activeAgents \in ActiveLists
  /\ session = NewSession(activeAgents, <<>>)
  /\ pendingVariantSelection = NULL
  /\ planningEvents = <<>>
  /\ messageBus = CoordinatorBus
  /\ counters = [requests |-> 0, rejected |-> 0]
  /\ \E pc \in FanOuts :
       /\ run = StartBatch(IdleRun, pc)
       /\ lastCall = Returned(FanOutName(pc), [order |-> <<>>], <<>>)

\* one call of the batch fulfils or rejects; when it is the last one,
\* Promise.allSettled resolves and the results are mapped to entries
SettleInAnyOrder ==
  /\ run.pc \in FanOuts
  /\ \E i \in 1..Len(run.calls), outcome \in CallOutcomes(BatchTexts) :
       /\ run.calls[i] = InFlight
       /\ LET calls == [run.calls EXCEPT ![i] = outcome]
              order == Append(lastCall.args.order, i)
          IN IF IsLastInFlight(i)
             THEN /\ lastCall' = Returned(lastCall.op, [order |-> order],
                                          FanOutEntries(run.pc, run.targets, calls, activeAgents))
                  /\ run' = [run EXCEPT !.pc = "batchSettled", !.calls = calls]
             ELSE /\ lastCall' = Returned(lastCall.op, [order |-> order], <<>>)
                  /\ run' = [run EXCEPT !.calls = calls]
  /\ UNCHANGED <<settings, searchAgentAvailable, activeAgents, mode, session,
                 pendingVariantSelection, planningEvents, counters, messageBus>>

NextBatch == SettleInAnyOrder

SpecBatch == InitBatch /\ [][NextBatch]_vars

(***************************************************************************)
(* The message bus on its own: listeners subscribe, unsubscribe and are    *)
(* removed, and events are emitted                                         *)
(***************************************************************************)
\* most registrations the emitter holds at a time
MaxListeners == 3

\* the listener functions passed to on<Kind>; thrower throws whenever it is
\* invoked
BusListeners == {"render", "log", "thrower"}

ThrowingListeners == {"thrower"}

\* subscribe(emitter, event, listener): emitter.on appends the listener, and
\* the closure returned removes (event, listener)
subscribe(bus, event, listener) ==
  [bus EXCEPT !.listeners[event] = Append(@, listener),
              !.unsubscribes = @ \cup {<<event, listener>>}]

\* emitter.off(event, listener): the most recently added registration of the
\* listener for the event is removed, if there is one
off(bus, event, listener) ==
  LET registered == bus.listeners[event]
      positions == {i \in 1..Len(registered) : registered[i] = listener}
  IN IF positions = {} THEN bus
     ELSE LET last == CHOOSE i \in positions : \A j \in positions : j <= i
          IN [bus EXCEPT !.listeners[event] =
                [k \in 1..(Len(registered) - 1) |->
                   IF k < last THEN registered[k] ELSE registered[k + 1]]]

\* emitter.removeAllListeners()
removeAll(bus) == [bus EXCEPT !.listeners = [event \in MessageEvents |-> <<>>]]

\* emitter.emit(event, update): the listeners registered for the event are
\* called in registration order before emit returns; a listener that throws
\* ends the emission, and its exception leaves emit
emit(bus, event) ==
  LET registered == bus.listeners[event]
      throwing == {i \in 1..Len(registered) : registered[i] \in ThrowingListeners}
      first == IF throwing = {} THEN Len(registered)
               ELSE CHOOSE i \in throwing : \A j \in throwing : i <= j
  IN [invoked |-> SubSeq(registered, 1, first),
      threw |-> throwing # {} \/ (event = "error" /\ registered = <<>>),
      error |-> IF throwing # {} THEN "listener failed"
                ELSE IF event = "error" /\ registered = <<>> THEN "Unhandled error."
                ELSE ""]

\* the number of registrations the emitter holds
ListenerCount(bus) ==
  LET Count[events \in SUBSET MessageEvents] ==
        IF events = {} THEN 0
        ELSE LET event == CHOOSE e \in events : TRUE
             IN Len(bus.listeners[event]) + Count[events \ {event}]
  IN Count[MessageEvents]

\* createMessageBus() has returned a bus nobody has subscribed to
InitBus ==
  /\ settings = [collaborationMode |-> "collaborative", variantSelectionMode |-> "manual",
                 enableWebSearchAgent |-> TRUE]
  /\ searchAgentAvailable = FALSE
  /\ activeAgents = <<>>
  /\ mode = "collaborative"
  /\ session = NULL
  /\ pendingVariantSelection = NULL
  /\ run = IdleRun
  /\ planningEvents = <<>>
  /\ lastCall = NoCall
  /\ counters = [requests |-> 0, rejected |-> 0]
  /\ messageBus = EmptyBus

\* on<Kind>(listener)
Subscribe ==
  /\ ListenerCount(messageBus) < MaxListeners
  /\ \E event \in MessageEvents, listener \in BusListeners :
       /\ Cardinality(messageBus.unsubscribes \cup {<<event, listener>>}) <= MaxListeners
       /\ messageBus' = subscribe(messageBus, event, listener)
       /\ lastCall' = Returned("on", [event |-> event, listener |-> listener], <<>>)
  /\ UNCHANGED <<settings, searchAgentAvailable, activeAgents, mode, session,
                 pendingVariantSelection, run, planningEvents, counters>>

\* a closure returned by on<Kind> is called
Unsubscribe ==
  /\ \E handle \in messageBus.unsubscribes :
       /\ messageBus' = off(messageBus, handle[1], handle[2])
       /\ lastCall' = Returned("unsubscribe", [event |-> handle[1], listener |-> handle[2]], <<>>)
  /\ UNCHANGED <<settings, searchAgentAvailable, activeAgents, mode, session,
                 pendingVariantSelection, run, planningEvents, counters>>

\* removeAll()
RemoveAll ==
  /\ messageBus' = removeAll(messageBus)
  /\ lastCall' = Returned("removeAll", [event |-> "", listener |-> ""], <<>>)
  /\ UNCHANGED <<settings, searchAgentAvailable, activeAgents, mode, session,
                 pendingVariantSelection, run, planningEvents, counters>>

\* emit<Kind>(update); lastCall.result lists the listeners the emission
\* invoked, in order
Emit ==
  /\ \E event \in MessageEvents :
       LET emission == emit(messageBus, event)
       IN lastCall' = [op |-> "emit", args |-> [event |-> event, listener |-> ""],
                       threw |-> emission.threw, error |-> emission.error,
                       result |-> emission.invoked]
  /\ UNCHANGED <<settings, searchAgentAvailable, activeAgents, mode, session,
                 pendingVariantSelection, run, planningEvents, counters, messageBus>>

NextBus ==
  \/ Subscribe
  \/ Unsubscribe
  \/ RemoveAll
  \/ Emit

SpecBus == InitBus /\ [][NextBus]_vars

(***************************************************************************)
(* Status and planning events handed to the active agents                  *)
(***************************************************************************)
\* AgentRegistry.broadcastStatus(update): receiveStatusUpdate is called on
\* every active agent but the one the update comes from; failing are the
\* agents whose handler rejects, and the promise rejects when one of them
\* was called
broadcastStatus(active, update, failing) ==
  LET received == SelectSeq(active, LAMBDA id : id # update.agentId)
  IN [received |-> received,
      rejected |-> \E i \in 1..Len(received) : received[i] \in failing]

\* AgentRegistry.broadcastPlanning(update): receivePlanningUpdate is called
\* on every active agent that has one (BaseAgent gives one to each)
broadcastPlanning(active, update, failing) ==
  [received |-> active,
   rejected |-> \E i \in 1..Len(active) : active[i] \in failing]

\* Coordinator.handleStatusUpdate and handlePlanningUpdate: the update is
\* broadcast when there is a session, and a rejected broadcast is logged by
\* the .catch handler; threw tells whether the handler itself throws
handleUpdate(sess, active, kind, update, failing) ==
  LET broadcast == IF kind = "status" THEN broadcastStatus(active, update, failing)
                   ELSE broadcastPlanning(active, update, failing)
  IN IF sess = NULL
     THEN [received |-> <<>>, logged |-> FALSE, threw |-> FALSE]
     ELSE [received |-> broadcast.received, logged |-> broadcast.rejected, threw |-> FALSE]

\* the agents an update can name in agentId: the active ones, the
\* coordinator, and none (an update without agentId)
UpdateSenders(active) == Range(active) \cup {"coordinator", NoId}

\* a session over any active agents has been initialised
InitBroadcast ==
  /\ settings = [collaborationMode |-> "collaborative", variantSelectionMode |-> "manual",
                 enableWebSearchAgent |-> TRUE]
  /\ searchAgentAvailable = FALSE
  /\ mode = "collaborative"
  /\ activeAgents \in ActiveLists
  /\ session = NewSession(activeAgents, <<>>)
  /\ pendingVariantSelection = NULL
  /\ run = IdleRun
  /\ planningEvents = <<>>
  /\ lastCall = NoCall
  /\ counters = [requests |-> 0, rejected |-> 0]
  /\ messageBus = CoordinatorBus

\* a status:update or planning:update emission reaches the handler the
\* constructor subscribed
HandleUpdate(kind) ==
  /\ \E agentId \in UpdateSenders(activeAgents), failing \in SUBSET Range(activeAgents) :
       LET update == [agentId |-> agentId]
           handled == handleUpdate(session, activeAgents, kind, update, failing)
       IN lastCall' = [op |-> IF kind = "status" THEN "handleStatusUpdate"
                              ELSE "handlePlanningUpdate",
                       args |-> [update |-> update, failing |-> failing],
                       threw |-> handled.threw,
                       error |-> "",
                       result |-> [received |-> handled.received, logged |-> handled.logged]]
  /\ UNCHANGED <<settings, searchAgentAvailable, activeAgents, mode, session,
                 pendingVariantSelection, run, planningEvents, counters, messageBus>>

HandleStatusUpdate == HandleUpdate("status")

HandlePlanningUpdate == HandleUpdate("planning")

NextBroadcast ==
  \/ HandleStatusUpdate
  \/ HandlePlanningUpdate

SpecBroadcast == InitBroadcast /\ [][NextBroadcast]_vars

(***************************************************************************)
(* Delivery of a team message to its recipients, some of whose             *)
(* receiveTeamMessage fails                                                *)
(***************************************************************************)
\* a delivery that stops at the first recipient whose receiveTeamMessage
\* fails and lets the failure out
deliverToRecipientsFailFast(recipients, failing) ==
  LET failed == {i \in 1..Len(recipients) : recipients[i] \in failing}
      first == IF failed = {} THEN Len(recipients)
               ELSE CHOOSE i \in failed : \A j \in failed : i <= j
  IN [attempted |-> SubSeq(recipients, 1, first),
      received |-> SelectSeq(SubSeq(recipients, 1, first), LAMBDA id : id \notin failing),
      logged |-> {},
      threw |-> failed # {},
      recipients |-> IF failed # {} THEN <<>> ELSE recipients]

\* the Promise.all of dispatchTeamMessage: receiveTeamMessage is called on
\* every recipient inside its own try/catch, a failure is logged, and the
\* recipients are returned
deliverToRecipients(recipients, failing) ==
  [attempted |-> recipients,
   received |-> SelectSeq(recipients, LAMBDA id : id \notin failing),
   logged |-> {recipients[i] : i \in {k \in 1..Len(recipients) : recipients[k] \in failing}},
   threw |-> FALSE,
   recipients |-> recipients]

\* AgentRegistry.dispatchTeamMessage(message) while the receiveTeamMessage of
\* any of the active agents fails
DispatchToFailingRecipients ==
  /\ run.pc = "messaging"
  /\ \E from \in Range(activeAgents) \cup {"nobody"},
        scope \in {"", "direct", "group"},
        to \in Targets(activeAgents),
        failing \in SUBSET Range(activeAgents) :
       LET message == [from |-> from, fromName |-> from,
                       message |-> "Ready for review hand-off.",
                       scope |-> scope, to |-> to]
           delivery == deliverToRecipients(determineRecipientsForMessage(activeAgents, message),
                                           failing)
       IN lastCall' = [op |-> "dispatchTeamMessage",
                       args |-> [message |-> message, failing |-> failing],
                       threw |-> delivery.threw,
                       error |-> "",
                       result |-> delivery]
  /\ run' = [run EXCEPT !.pc = "delivered"]
  /\ UNCHANGED <<settings, searchAgentAvailable, activeAgents, mode, session,
                 pendingVariantSelection, planningEvents, counters, messageBus>>

NextDispatch == DispatchToFailingRecipients

SpecDispatch == InitRoute /\ [][NextDispatch]_vars

(***************************************************************************)
(* The private plans of a variant run and the status updates the agents    *)
(* emit while they answer                                                  *)
(***************************************************************************)
\* the agents whose prompt runner reports the text it received in a status
\* update (ClaudeAgent.runPrompt, the streamed turn of CodexAgent)
EchoingAgents == {"claude", "codex"}

\* the last status update of generatePlan that carries a text of its own:
\* emitStatus({ actionType, description: text.slice(0, 80) }) cut to 500 by
\* BaseAgent.emitStatus, or 'Plan ready'
planStatus(agentId, text) ==
  [agentId |-> agentId,
   actionType |-> "plan",
   description |-> IF agentId \in EchoingAgents THEN SliceTo(SliceTo(text, 80), 500)
                   ELSE "Plan ready"]

\* runVariantPlanningPhase has asked every active agent for its private plan
InitPrivacy ==
  /\ settings = [collaborationMode |-> "variant", variantSelectionMode |-> "manual",
                 enableWebSearchAgent |-> TRUE]
  /\ searchAgentAvailable = FALSE
  /\ mode = "variant"
  /\ activeAgents \in ActiveLists
  /\ session = NewSession(activeAgents, <<>>)
  /\ pendingVariantSelection = NULL
  /\ planningEvents = <<>>
  /\ lastCall = NoCall
  /\ messageBus = CoordinatorBus
  /\ counters = [requests |-> 0, rejected |-> 0]
  /\ run = StartBatch([IdleRun EXCEPT !.variantRun = TRUE], "awaitVariantPlans")

\* the generatePlan call of one agent fulfils: the agent emits its status
\* update on the bus, Coordinator.handleStatusUpdate broadcasts it to the
\* other active agents, and once every call has settled the run goes on to
\* the independent executions
PrivatePlanFulfils ==
  /\ run.pc = "awaitVariantPlans"
  /\ \E i \in 1..Len(run.calls), text \in PlanTexts :
       /\ run.calls[i] = InFlight
       /\ LET update == planStatus(run.targets[i], text)
              handled == handleUpdate(session, activeAgents, "status", update, {})
              calls == [run.calls EXCEPT ![i] = Fulfilled(text)]
          IN /\ lastCall' = [op |-> "handleStatusUpdate",
                             args |-> [update |-> update, failing |-> {}],
                             threw |-> handled.threw,
                             error |-> "",
                             result |-> [received |-> handled.received, logged |-> handled.logged]]
             /\ run' = IF IsLastInFlight(i)
                       THEN StartBatch([run EXCEPT
                                          !.plans = runGeneratePlans(run.targets, calls, activeAgents),
                                          !.settled.plans = calls],
                                       "awaitVariantTranscripts")
                       ELSE [run EXCEPT !.calls = calls]
  /\ UNCHANGED <<settings, searchAgentAvailable, activeAgents, mode, session,
                 pendingVariantSelection, planningEvents, counters, messageBus>>

NextPrivacy == PrivatePlanFulfils

SpecPrivacy == InitPrivacy /\ [][NextPrivacy]_vars

(***************************************************************************)
(* The web-search agent on the request channel of the bus                  *)
(***************************************************************************)
\* the queries handed to requestWebSearch: a query, a query with blanks
\* around it, and blanks only
SearchQueries == {"oauth pkce audit", "  rate limits ", "  "}

\* the initialize that subscribes again without calling requestUnsubscribe
initializeWebSearchKeepingListener(bus, avail) ==
  IF ~avail THEN bus ELSE subscribe(bus, "request", "handleSearchRequest")

\* WebSearchAgent.initialize(): nothing when the agent is not available;
\* otherwise the listener of the earlier call is removed through
\* requestUnsubscribe and a new one is subscribed with onRequest
initializeWebSearch(bus, avail) ==
  IF ~avail THEN bus
  ELSE LET requestUnsubscribe == <<"request", "handleSearchRequest">> \in bus.unsubscribes
       IN subscribe(IF requestUnsubscribe THEN off(bus, "request", "handleSearchRequest") ELSE bus,
                    "request", "handleSearchRequest")

\* BaseAgent.requestWebSearch(query) of the agent requester: the payload
\* emitted with emitRequest, NULL when the query is blank
requestWebSearch(requester, query) ==
  IF trim(query) = "" THEN NULL
  ELSE [type |-> "web-search", targetAgentId |-> "web-search", query |-> trim(query),
        requestingAgentId |-> requester,
        requestingAgentName |-> getAgentById(requester).name]

\* WebSearchAgent.formatReport({ query, rawOutput }) without instructions:
\* the header with the query, the body and the cut at 780 characters
formatReport(query, rawOutput) ==
  LET message == "Search \"" \o query \o "\" ->\n" \o rawOutput
  IN IF Len(message) > 780 THEN SliceTo(message, 779) ELSE message

\* the failure description of WebSearchAgent.handleSearchRequest
searchFailure(query, errMessage) ==
  LET description == "Search failed for \"" \o SliceTo(query, 60) \o "\": " \o errMessage
  IN IF Len(description) > 780 THEN SliceTo(description, 779) ELSE description

\* WebSearchAgent.handleSearchRequest(request): the team messages it sends
\* with sendDirectMessage, each with the recipients the coordinator
\* dispatches it to; performSearch resolves or rejects
handleSearchRequest(request, succeeds, sess, active) ==
  LET query == trim(request.query)
      text == IF succeeds THEN formatReport(query, "1. PKCE for public clients")
              ELSE searchFailure(query, "search timed out")
      payload == sendTeamMessage("web-search", setTeamRoster(sess.agents), text,
                                 [scope |-> "direct", to |-> request.requestingAgentId])
  IN IF query = "" \/ payload = NULL THEN <<>>
     ELSE <<[payload |-> payload,
             recipients |-> handleTeamMessage(sess, active, payload)]>>

\* the listener onRequest registered in initialize: the requests it passes
\* on to handleSearchRequest
AcceptsRequest(request) ==
  /\ request # NULL
  /\ request.type = "web-search"
  /\ request.targetAgentId \in {"", "web-search"}
  /\ request.query # ""

\* a session with the web-search agent among its active agents; the agent
\* has not been initialised yet
InitSearch ==
  /\ settings = [collaborationMode |-> "collaborative", variantSelectionMode |-> "manual",
                 enableWebSearchAgent |-> TRUE]
  /\ searchAgentAvailable \in BOOLEAN
  /\ mode = "collaborative"
  /\ activeAgents \in {active \in ActiveLists : "web-search" \in Range(active)}
  /\ session = NewSession(activeAgents, <<>>)
  /\ pendingVariantSelection = NULL
  /\ planningEvents = <<>>
  /\ lastCall = NoCall
  /\ messageBus = CoordinatorBus
  /\ counters = [requests |-> 0, rejected |-> 0]
  /\ run = [IdleRun EXCEPT !.pc = "searching"]

\* initialize() of the web-search agent is called, for the first time or
\* again
InitializeWebSearch ==
  /\ run.pc = "searching"
  /\ Len(messageBus.listeners["request"]) < MaxListeners
  /\ messageBus' = initializeWebSearch(messageBus, searchAgentAvailable)
  /\ lastCall' = Returned("initialize", [agentId |-> "web-search"],
                          [listeners |-> Len(messageBus'.listeners["request"])])
  /\ UNCHANGED <<settings, searchAgentAvailable, activeAgents, mode, session,
                 pendingVariantSelection, run, planningEvents, counters>>

\* an active agent calls requestWebSearch(query); the bus hands the request to
\* the listeners of the request channel, and the search of every
\* handleSearchRequest succeeds or fails
RequestWebSearch ==
  /\ run.pc = "searching"
  /\ \E requester \in Range(activeAgents) \ {"web-search"},
        query \in SearchQueries,
        succeeds \in BOOLEAN :
       LET request == requestWebSearch(requester, query)
           invoked == IF request = NULL THEN <<>>
                      ELSE SelectSeq(emit(messageBus, "request").invoked,
                                     LAMBDA l : l = "handleSearchRequest" /\ AcceptsRequest(request))
           Messages[i \in 0..Len(invoked)] ==
             IF i = 0 THEN <<>>
             ELSE Messages[i - 1] \o handleSearchRequest(request, succeeds, session, activeAgents)
       IN lastCall' = Returned("requestWebSearch",
                               [requester |-> requester, query |-> query, succeeds |-> succeeds],
                               [request |-> request,
                                initialised |-> <<"request", "handleSearchRequest">> \in messageBus.unsubscribes,
                                handled |-> Len(invoked),
                                messages |-> Messages[Len(invoked)]])
  /\ UNCHANGED <<settings, searchAgentAvailable, activeAgents, mode, session,
                 pendingVariantSelection, run, planningEvents, counters, messageBus>>

NextSearch ==
  \/ InitializeWebSearch
  \/ RequestWebSearch

SpecSearch == InitSearch /\ [][NextSearch]_vars

(***************************************************************************)
(* The status update the coordinator emits for a team message              *)
(***************************************************************************)
\* Coordinator.handleTeamMessage(message): the status update emitted on the
\* bus once the message was dispatched to recipients
teamMessageStatus(message, recipients) ==
  LET recipientNames == [i \in 1..Len(recipients) |-> getAgentById(recipients[i]).name]
      scope == IF message.scope # "" THEN message.scope ELSE "auto"
      descriptionPrefix == IF Len(recipientNames) > 1 \/ scope = "group" THEN "Group message"
                           ELSE IF Len(recipientNames) = 1
                                THEN "Message to " \o recipientNames[1]
                                ELSE "Message"
  IN [agentId |-> message.from,
      agentName |-> getAgentById(message.from).name,
      actionType |-> "team-message",
      description |-> SliceTo(descriptionPrefix \o ": " \o message.message, 100)]

\* an active agent sends a team message; Coordinator.handleTeamMessage
\* dispatches it and emits its status update, which handleStatusUpdate
\* broadcasts to the active agents
RelayTeamMessage ==
  /\ run.pc = "messaging"
  /\ \E sender \in Range(activeAgents),
        scope \in Scopes,
        to \in Targets(activeAgents) :
       LET options == [scope |-> scope, to |-> to]
           payload == sendTeamMessage(sender, setTeamRoster(session.agents),
                                      "Ready for review hand-off.", options)
           recipients == handleTeamMessage(session, activeAgents, payload)
           status == teamMessageStatus(payload, recipients)
       IN lastCall' = Returned("handleTeamMessage", payload,
                               [recipients |-> recipients,
                                status |-> status,
                                statusReceived |->
                                  handleUpdate(session, activeAgents, "status", status, {}).received])
  /\ run' = [run EXCEPT !.pc = "delivered"]
  /\ UNCHANGED <<settings, searchAgentAvailable, activeAgents, mode, session,
                 pendingVariantSelection, planningEvents, counters, messageBus>>

NextRelay == RelayTeamMessage

SpecRelay == InitRoute /\ [][NextRelay]_vars

(***************************************************************************)
(* A fan-out batch in flight while initializeSession replaces the active   *)
(* agents                                                                  *)
(***************************************************************************)
\* the active lists a later initializeSelected leaves: those of at most
\* MaxSelected agents
ReplacementLists == {active \in ActiveLists : Len(active) <= MaxSelected}

\* Coordinator.initializeSession is called while the batch is in flight:
\* AgentRegistry.initializeSelected assigns this.activeAgents and the
\* coordinator stores the new session
InitializeSessionDuringBatch ==
  /\ run.pc \in FanOuts
  /\ activeAgents = run.targets
  /\ \E active \in ReplacementLists :
       /\ active # activeAgents
       /\ activeAgents' = active
       /\ session' = NewSession(active, <<>>)
  /\ UNCHANGED <<settings, searchAgentAvailable, mode, pendingVariantSelection, run,
                 planningEvents, lastCall, counters, messageBus>>

NextReplace ==
  \/ SettleInAnyOrder
  \/ InitializeSessionDuringBatch

SpecReplace == InitBatch /\ [][NextReplace]_vars

(***************************************************************************)
(* Properties                                                              *)
(***************************************************************************)
\* C1: each fan-out (runGeneratePlans, runNegotiation, executeAssignments)
\* over N active workers returns exactly N entries whichever calls reject,
\* entry i being the one of worker i: the answer of a call that fulfilled,
\* and "<Plan generation | Allocation | Execution> failed: <message>" for a
\* call that rejected
C1_FanOutTotality ==
  LET Total(entries, calls, Text(_), prefix) ==
        calls # <<>> =>
          /\ Len(entries) = Len(activeAgents)
          /\ \A i \in 1..Len(calls) :
               /\ entries[i].agentId = activeAgents[i]
               /\ Text(entries[i]) = IF calls[i].status = "rejected"
                                     THEN prefix \o " failed: " \o calls[i].reason.message
                                     ELSE calls[i].value
  IN /\ Total(run.plans, run.settled.plans, LAMBDA e : e.plan, "Plan generation")
     /\ run.settled.allocations # <<>> =>
          Total(session.plan.allocations, run.settled.allocations,
                LAMBDA e : e.allocation, "Allocation")
     /\ run.settled.transcripts # <<>> =>
          Total(session.transcripts, run.settled.transcripts,
                LAMBDA e : e.transcript, "Execution")

\* two workers: one plan call rejected and the other fulfilled, every
\* negotiation call rejected, an execution call rejected
C1_Witness ==
  /\ Len(activeAgents) = 2
  /\ Len(run.settled.plans) = 2
  /\ run.settled.plans[1].status = "rejected"
  /\ run.settled.plans[2].status = "fulfilled"
  /\ Len(run.settled.allocations) = 2
  /\ \A i \in 1..2 : run.settled.allocations[i].status = "rejected"
  /\ \E i \in 1..Len(run.settled.transcripts) : run.settled.transcripts[i].status = "rejected"

\* C2: a run planned and executed in collaborative mode over a session with
\* active workers never throws and never ends in an error, whichever worker
\* calls reject: once planned it has emitted final-division and stored the
\* assignments, once executed it has emitted exactly one
\* execution-transcript per active worker
C2_CollaborativeRunCompletes ==
  LET Count(stage, agentId) ==
        Cardinality({k \in 1..Len(planningEvents) :
                       /\ planningEvents[k].stage = stage
                       /\ planningEvents[k].agentId = agentId})
      Stages(stage) ==
        Cardinality({k \in 1..Len(planningEvents) : planningEvents[k].stage = stage})
  IN (~run.variantRun /\ run.pc # "idle") =>
       /\ run.pc # "error"
       /\ ~lastCall.threw
       /\ Len(activeAgents) > 0
       /\ run.pc \in {"planned", "awaitTranscripts", "complete"} =>
            /\ Stages("final-division") = 1
            /\ session.assignments # NULL
       /\ (run.pc = "complete" /\ lastCall.op = "runExecutionPhase" /\ ~lastCall.result.skipped) =>
            /\ Stages("execution-transcript") = Len(activeAgents)
            /\ \A i \in 1..Len(activeAgents) : Count("execution-transcript", activeAgents[i]) = 1

\* a collaborative run of two workers is complete although every
\* generatePlan, negotiateResponsibilities and executeTasks call rejected
C2_Witness ==
  /\ ~run.variantRun
  /\ run.pc = "complete"
  /\ lastCall.op = "runExecutionPhase"
  /\ ~lastCall.result.skipped
  /\ Len(activeAgents) = 2
  /\ \A i \in 1..2 :
       /\ run.settled.plans[i].status = "rejected"
       /\ run.settled.allocations[i].status = "rejected"
       /\ run.settled.transcripts[i].status = "rejected"

\* C3: when every worker named in agentSelections (at least one) fails to
\* initialize, initializeSession raises an error
C3_AllNamedFailRaises ==
  LET named == lastCall.args.agentSelections \cap AgentIds
  IN (lastCall.op = "initializeSession" /\ named # {} /\ named \subseteq lastCall.args.failing)
       => lastCall.threw

\* C4: when at least one but not all of the workers initializeSelected
\* initializes throw, initializeSession succeeds; session.agents are exactly
\* the workers that did not throw, in registration order, and
\* session.failures holds exactly one entry per worker that threw, with its id
C4_PartialInitialization ==
  LET selected == Range(lastCall.args.selected)
      failing == lastCall.args.failing
      registered == [i \in 1..Len(agents) |-> agents[i].id]
  IN (lastCall.op = "initializeSession" /\ selected \cap failing # {} /\ ~(selected \subseteq failing))
       => /\ ~lastCall.threw
          /\ session # NULL
          /\ [i \in 1..Len(session.agents) |-> session.agents[i].id]
               = SelectSeq(registered, LAMBDA id : id \in selected \ failing)
          /\ Len(session.failures) > 0
          /\ [i \in 1..Len(session.failures) |-> session.failures[i].agentId]
               = SelectSeq(registered, LAMBDA id : id \in selected \cap failing)

\* claude and codex were named and the web-search agent joined; codex threw
C4_Witness ==
  /\ lastCall.op = "initializeSession"
  /\ lastCall.args.agentSelections = {"claude", "codex"}
  /\ lastCall.args.failing = {"codex"}
  /\ session # NULL
  /\ Len(session.agents) = 2
  /\ Len(session.failures) = 1


\* C5: while a manual selection is pending, a submission of an option's
\* 1-based number or of its worker id under the pending request id returns
\* success with that option's agentId and resolves the suspended pipeline
\* with it; the pipeline then finishes with the stored selection naming that
\* worker with mode 'manual' and emits variant-selected for that worker
C5_ManualSelectionByNumberOrId ==
  /\ [][pendingVariantSelection # NULL =>
          \A k \in 1..Len(pendingVariantSelection.options) :
            \A text \in {String(k), pendingVariantSelection.options[k].agentId} :
              Submit(pendingVariantSelection.requestId, Str(text)) =>
                /\ lastCall'.result.success
                /\ lastCall'.result.mode = "manual"
                /\ lastCall'.result.agentId = pendingVariantSelection.options[k].agentId
                /\ run'.pc = "selectionResolved"
                /\ run'.manualResult.type = "manual"
                /\ run'.manualResult.agentId = pendingVariantSelection.options[k].agentId]_vars
  /\ [][(run.pc = "selectionResolved" /\ run.manualResult.type = "manual" /\ run'.pc # run.pc) =>
          /\ run'.pc = "planned"
          /\ session'.variant.selection.agentId = run.manualResult.agentId
          /\ session'.variant.selection.mode = "manual"
          /\ session'.plan.variant.selection = session'.variant.selection
          /\ planningEvents' = planningEvents
               \o <<Event("variant-selected", run.manualResult.agentId, "")>>]_vars

\* the pipeline has finished after "1" was submitted: the first worker, who
\* is not the review owner, is the stored manual selection
C5_Witness ==
  /\ run.pc = "planned"
  /\ lastCall.op = "submitVariantSelection"
  /\ lastCall.result.success
  /\ lastCall.args.rawValue = Str("1")
  /\ session.variant.selection.agentId = activeAgents[1]
  /\ session.variant.selection.mode = "manual"
  /\ session.reviewAgentId # activeAgents[1]
  /\ planningEvents[Len(planningEvents)] = Event("variant-selected", activeAgents[1], "")

\* C6: while a manual selection is pending, a submission of a worker's
\* display name, in any letter case, under the pending request id resolves
\* the selection to that worker
C6_DisplayNameResolves ==
  [][pendingVariantSelection # NULL =>
       \A k \in 1..Len(pendingVariantSelection.options) :
         LET worker == getAgentById(pendingVariantSelection.options[k].agentId)
         IN \A text \in {worker.name, toUpperCase(worker.name), toLowerCase(worker.name)} :
              Submit(pendingVariantSelection.requestId, Str(text)) =>
                /\ lastCall'.result.success
                /\ lastCall'.result.agentId = worker.id
                /\ run'.manualResult.agentId = worker.id]_vars

\* C7: a submission is rejected when nothing is pending, when its request id
\* is not the pending one, when its value is not a string or is blank, or
\* when its value is neither "auto" nor the number, id, display name or label
\* of an option; a rejected submission returns success false with an error
\* and changes neither the pending selection nor the pipeline nor the
\* session; however many submissions were rejected, a submission of an
\* option's worker id under the pending request id then succeeds
C7_RejectedSubmissionKeepsPending ==
  /\ [][LET pending == pendingVariantSelection
            Normal(rawValue) == toLowerCase(trim(rawValue.text))
            Names(k) ==
              {String(k), toLowerCase(pending.options[k].agentId),
               toLowerCase(pending.options[k].agentName),
               toLowerCase(getAgentById(pending.options[k].agentId).name)}
            MustReject(requestId, rawValue) ==
              \/ pending = NULL
              \/ requestId # pending.requestId
              \/ ~rawValue.isString
              \/ trim(rawValue.text) = ""
              \/ /\ Normal(rawValue) # "auto"
                 /\ \A k \in 1..Len(pending.options) : Normal(rawValue) \notin Names(k)
        IN lastCall'.op = "submitVariantSelection" =>
             LET requestId == lastCall'.args.requestId
                 rawValue == lastCall'.args.rawValue
             IN (Submit(requestId, rawValue) /\ MustReject(requestId, rawValue)) =>
                  /\ ~lastCall'.result.success
                  /\ lastCall'.result.error # ""
                  /\ UNCHANGED <<pendingVariantSelection, run, session, planningEvents>>]_vars
  /\ [][(pendingVariantSelection # NULL /\ counters.rejected > 0) =>
          \A k \in 1..Len(pendingVariantSelection.options) :
            Submit(pendingVariantSelection.requestId,
                   Str(pendingVariantSelection.options[k].agentId)) =>
              /\ lastCall'.result.success
              /\ lastCall'.result.agentId = pendingVariantSelection.options[k].agentId]_vars

\* a submission succeeded after MaxRejected submissions, at least, had been
\* rejected while the same request was pending
C7_Witness ==
  /\ counters.rejected = MaxRejected
  /\ lastCall.op = "submitVariantSelection"
  /\ lastCall.args.requestId = Uuid(2)
  /\ lastCall.result.success
  /\ lastCall.result.mode = "manual"
  /\ run.pc = "selectionResolved"

\* C8: a submission of "auto" under the pending request id succeeds, clears
\* the pending selection and resolves the suspended pipeline; the selection
\* the pipeline then stores is the one autoSelectVariant picks for the same
\* results, with mode 'auto'
C8_AutoSubmission ==
  /\ [][pendingVariantSelection # NULL =>
          (Submit(pendingVariantSelection.requestId, Str("auto")) =>
             /\ lastCall'.result.success
             /\ lastCall'.result.mode = "auto"
             /\ pendingVariantSelection' = NULL
             /\ run'.pc = "selectionResolved")]_vars
  /\ []((/\ lastCall.op = "submitVariantSelection"
         /\ lastCall.result.success
         /\ lastCall.result.mode = "auto"
         /\ run.pc = "planned") =>
          /\ session.variant.selection =
               StoredSelection(autoSelectVariant(session.variant.results,
                                                 session.reviewAgentId, session.agents))
          /\ session.variant.selection.mode = "auto")

\* the pipeline has finished after "auto" was submitted; the review owner,
\* who is not the first worker, is the stored selection
C8_Witness ==
  /\ run.pc = "planned"
  /\ lastCall.op = "submitVariantSelection"
  /\ lastCall.args.rawValue = Str("auto")
  /\ lastCall.result.success
  /\ session.variant.selection.mode = "auto"
  /\ session.variant.selection.agentId = session.reviewAgentId
  /\ session.reviewAgentId # session.variant.results[1].agentId

\* C9: autoSelectVariant returns the result of the session's review owner
\* when the results hold one for that worker, and the first result
\* otherwise; the worker it names always has the result it returns
C9_AutoStrategy ==
  (lastCall.op = "autoSelectVariant" /\ ~lastCall.threw) =>
    LET results == run.results
        selection == lastCall.result
        owned == {i \in 1..Len(results) : results[i].agentId = session.reviewAgentId}
    IN /\ owned # {} =>
            /\ selection.agentId = session.reviewAgentId
            /\ \E i \in owned : selection.entry = results[i]
       /\ owned = {} =>
            /\ selection.agentId = results[1].agentId
            /\ selection.entry = results[1]
       /\ \E i \in 1..Len(results) :
            /\ results[i].agentId = selection.agentId
            /\ selection.entry = results[i]
       /\ selection.mode = "auto"

\* the review owner has no result among two and the first one was selected
C9_Witness ==
  /\ lastCall.op = "autoSelectVariant"
  /\ ~lastCall.threw
  /\ Len(run.results) = 2
  /\ \A i \in 1..2 : run.results[i].agentId # session.reviewAgentId
  /\ lastCall.result.entry = run.results[1]

\* C10: setCollaborationMode with any value other than 'variant' while a
\* selection is pending clears it and resolves the suspended pipeline with
\* the automatic choice, and the pipeline then stores the selection
\* autoSelectVariant picks, with mode 'auto', and emits variant-selected for
\* it; setCollaborationMode('variant') changes neither the pending selection
\* nor the pipeline
C10_ModeSwitchResolvesPending ==
  /\ [][pendingVariantSelection # NULL =>
          \A m \in ModeInputs :
            SetMode(m) =>
              IF m # "variant"
              THEN /\ pendingVariantSelection' = NULL
                   /\ run'.pc = "selectionResolved"
                   /\ run'.manualResult.type = "auto"
              ELSE UNCHANGED <<pendingVariantSelection, run>>]_vars
  /\ [][(run.pc = "selectionResolved" /\ run.manualResult.type = "auto" /\ run'.pc # run.pc) =>
          LET selection == autoSelectVariant(run.results, session.reviewAgentId, session.agents)
          IN /\ run'.pc = "planned"
             /\ session'.variant.selection.mode = "auto"
             /\ session'.variant.selection.agentId = selection.agentId
             /\ planningEvents' = planningEvents
                  \o <<Event("variant-selected", selection.agentId, "")>>]_vars

\* the mode was set to collaborative while the selection was pending, no
\* submission ever succeeded, and the pipeline has finished with an
\* automatic selection
C10_Witness ==
  /\ run.pc = "planned"
  /\ run.manualResult = [type |-> "auto", agentId |-> NoId, note |-> ""]
  /\ lastCall.op = "runPlanningPhase"
  /\ mode = "collaborative"
  /\ pendingVariantSelection = NULL
  /\ session.variant.selection.mode = "auto"

\* the invocations of runVariantPlanningPhase that are suspended in
\* awaitManualVariantSelection: their request ids
AwaitingSelection ==
  (IF run.pc = "awaitSelection" THEN {run.requestId} ELSE {})
  \cup {run.suspended[i].requestId :
          i \in {j \in 1..Len(run.suspended) : run.suspended[j].pc = "awaitSelection"}}

\* C11: the pending-selection slot is non-null exactly while a variant
\* pipeline is suspended awaiting a manual selection: null before a request
\* is issued, and whenever it is set the invocation that issued its request
\* is still suspended, and whenever an invocation is suspended the slot is set
C11_PendingExactlyWhileSuspended ==
  /\ counters.requests = 0 => pendingVariantSelection = NULL
  /\ pendingVariantSelection # NULL =>
        pendingVariantSelection.requestId \in AwaitingSelection
  /\ AwaitingSelection # {} => pendingVariantSelection # NULL

\* the continuations that have been completed: the request id of each resolved
\* invocation with the value it was resolved with
ResolvedWith(r) ==
  (IF r.manualResult # NULL THEN {<<r.requestId, r.manualResult>>} ELSE {})
  \cup {<<r.suspended[i].requestId, r.suspended[i].manualResult>> :
          i \in {j \in 1..Len(r.suspended) : r.suspended[j].manualResult # NULL}}

\* C12: the continuation of a pending manual selection is completed exactly
\* once. A submission that returns success and a toggle away from variant mode
\* while a request is pending complete the continuation of the pending
\* request, which was not completed before, and empty the slot; every other
\* submission or toggle completes nothing and leaves every invocation as it
\* was; no submission or toggle changes the worker recorded as chosen; and a
\* completed continuation keeps the value it was completed with
C12_ContinuationCompletedOnce ==
  [][LET Once(resolving) ==
           /\ resolving =>
                /\ pendingVariantSelection # NULL
                /\ pendingVariantSelection' = NULL
                /\ pendingVariantSelection.requestId \in AwaitingSelection
                /\ \A done \in ResolvedWith(run) : done[1] # pendingVariantSelection.requestId
                /\ \E done \in ResolvedWith(run') : done[1] = pendingVariantSelection.requestId
           /\ ~resolving => UNCHANGED <<run, pendingVariantSelection>>
           /\ session # NULL =>
                /\ session'.variant = session.variant
                /\ session'.plan = session.plan
     IN /\ ResolvedWith(run) \subseteq ResolvedWith(run')
        /\ (/\ lastCall'.op = "submitVariantSelection"
            /\ Submit(lastCall'.args.requestId, lastCall'.args.rawValue))
           => Once(lastCall'.result.success)
        /\ (/\ UNCHANGED <<planningEvents, lastCall>>
            /\ \E m \in ModeInputs : SetMode(m))
           => Once(mode' # "variant" /\ pendingVariantSelection # NULL)]_vars

\* a toggle to collaborative mode completed the continuation, and a later
\* submission with the id of that request was turned away
C12_Witness ==
  /\ run.manualResult = [type |-> "auto", agentId |-> NoId, note |-> ""]
  /\ mode = "collaborative"
  /\ pendingVariantSelection = NULL
  /\ lastCall.op = "submitVariantSelection"
  /\ lastCall.args.requestId = run.requestId
  /\ lastCall.args.rawValue = Str("1")
  /\ ~lastCall.result.success

\* C13: after a variant run has completed its selection no collaborative
\* execution follows: the runExecutionPhase call that follows it starts no
\* executeTasks call, raises no error and returns the variant results, also
\* when the selection was resolved by a toggle to collaborative mode
C13_NoExecutionAfterVariantSelection ==
  (run.variantRun /\ lastCall.op = "runExecutionPhase") =>
    /\ ~lastCall.threw
    /\ run.pc = "complete"
    /\ run.calls = <<>>
    /\ lastCall.result.skipped
    /\ lastCall.result.transcripts = session.variant.results

\* C14: a collaboration-mode toggle made while a run is in progress takes
\* effect only on the next run: the execution phase that follows the planning
\* phase of a run is the one of the mode the run started in - the variant
\* results are returned after variant planning, the assignments are executed
\* after collaborative planning
C14_ToggleTakesEffectNextRun ==
  [][(run.pc = "planned" /\ lastCall'.op = "runExecutionPhase" /\ run'.pc # "planned") =>
       /\ ~lastCall'.threw
       /\ IF run.variantRun
          THEN lastCall'.result.skipped /\ run'.pc = "complete"
          ELSE ~lastCall'.result.skipped /\ run'.pc = "awaitTranscripts"]_vars

\* a team message has been handled: sent by an agent or dispatched directly
Routed ==
  /\ lastCall.op \in {"sendTeamMessage", "dispatchTeamMessage"}
  /\ lastCall.result.payload # NULL

\* C15: with exactly two active workers a team message from one of them is
\* delivered to the other one and only to it, whatever scope and whatever
\* target the message declares
C15_TwoWorkersOtherOnly ==
  (/\ Routed
   /\ Len(activeAgents) = 2
   /\ lastCall.result.payload.from \in Range(activeAgents))
  => \E other \in Range(activeAgents) :
       /\ other # lastCall.result.payload.from
       /\ lastCall.result.recipients = <<other>>

\* of two active workers one dispatched a direct message addressed to itself,
\* and the other one received it
C15_Witness ==
  /\ lastCall.op = "dispatchTeamMessage"
  /\ activeAgents = <<"claude", "codex">>
  /\ lastCall.args.from = "codex"
  /\ lastCall.args.scope = "direct"
  /\ lastCall.args.to = "codex"
  /\ lastCall.result.recipients = <<"claude">>

\* the message handed to the registry declares scope direct, or scope auto
\* (also by declaring none) together with a target
DirectOrAutoWithTarget(message) ==
  \/ toLowerCase(message.scope) = "direct"
  \/ (message.scope = "" \/ toLowerCase(message.scope) = "auto") /\ message.to # ""

\* C16: with three or more active workers a message from A with scope direct,
\* or scope auto plus a named target, whose target is the id of another
\* active worker B is delivered to B and to nobody else
C16_DirectByIdReachesTarget ==
  (/\ Routed
   /\ Len(activeAgents) >= 3
   /\ lastCall.result.payload.from \in Range(activeAgents)
   /\ DirectOrAutoWithTarget(lastCall.result.payload)
   /\ lastCall.result.payload.to \in Range(activeAgents) \ {lastCall.result.payload.from})
  => lastCall.result.recipients = <<lastCall.result.payload.to>>

\* of three active workers claude dispatched a message with no scope that
\* names gemini by id, and gemini alone received it
C16_Witness ==
  /\ lastCall.op = "dispatchTeamMessage"
  /\ activeAgents = <<"claude", "codex", "gemini">>
  /\ lastCall.args.from = "claude"
  /\ lastCall.args.scope = ""
  /\ lastCall.args.to = "gemini"
  /\ lastCall.result.recipients = <<"gemini">>

\* C17: with three active workers a direct message sent by A whose target is
\* the display name of another active worker B, in the letter case of the
\* roster or in any other, is delivered to B and to nobody else: the sender
\* resolves the name to B's id without regard to case, and the registry
\* resolves the id
C17_DirectByNameAnyCase ==
  (/\ lastCall.op = "sendTeamMessage"
   /\ lastCall.result.payload # NULL
   /\ Len(activeAgents) >= 3
   /\ lastCall.args.options.scope = "direct")
  => \A b \in Range(activeAgents) \ {lastCall.args.from} :
       toLowerCase(lastCall.args.options.to) = toLowerCase(getAgentById(b).name)
         => /\ lastCall.result.payload.to = b
            /\ lastCall.result.recipients = <<b>>

\* claude sent a direct message to its teammate codex, named by its display
\* name in capitals, in a team of three, and codex alone received it
C17_Witness ==
  /\ lastCall.op = "sendTeamMessage"
  /\ activeAgents = <<"claude", "codex", "gemini">>
  /\ lastCall.args.from = "claude"
  /\ lastCall.args.options.scope = "direct"
  /\ lastCall.args.options.to = toUpperCase(getAgentById("codex").name)
  /\ lastCall.args.options.to # getAgentById("codex").name
  /\ lastCall.result.recipients = <<"codex">>

\* the active workers other than the sender of message, in the order of the
\* active list
OthersOf(message) == SelectSeq(activeAgents, LAMBDA id : id # message.from)

\* C18: with two or more other active workers a message with scope direct, or
\* scope auto plus a named target, whose target is not the id or the display
\* name of one of the others - an unknown name, no target, the sender's own
\* id - is delivered to all the other active workers: the call raises no
\* error and the message is not dropped
C18_UnresolvedTargetBroadcasts ==
  LET message == lastCall.result.payload
  IN (/\ Routed
      /\ Len(OthersOf(message)) >= 2
      /\ DirectOrAutoWithTarget(message)
      /\ \A b \in Range(OthersOf(message)) :
           message.to # b /\ message.to # getAgentById(b).name)
     => /\ ~lastCall.threw
        /\ lastCall.result.recipients = OthersOf(message)
        /\ lastCall.result.recipients # <<>>

\* claude dispatched a direct message addressed to itself in a team of three,
\* and both teammates received it
C18_Witness ==
  /\ lastCall.op = "dispatchTeamMessage"
  /\ activeAgents = <<"claude", "codex", "gemini">>
  /\ lastCall.args.from = "claude"
  /\ lastCall.args.scope = "direct"
  /\ lastCall.args.to = "claude"
  /\ lastCall.result.recipients = <<"codex", "gemini">>

\* C19: for every message and every active list the recipients never include
\* the sender and are active workers; there is none when the sender is the
\* only active worker; and with two or more other workers a message with
\* scope group, or with scope auto and no target, is delivered to all the
\* other active workers
C19_RecipientsAmongOthers ==
  LET message == lastCall.result.payload
      recipients == lastCall.result.recipients
  IN Routed =>
       /\ message.from \notin Range(recipients)
       /\ Range(recipients) \subseteq Range(activeAgents)
       /\ Range(activeAgents) = {message.from} => recipients = <<>>
       /\ (/\ Len(OthersOf(message)) >= 2
           /\ \/ toLowerCase(message.scope) = "group"
              \/ (message.scope = "" \/ toLowerCase(message.scope) = "auto") /\ message.to = "")
          => recipients = OthersOf(message)

\* codex dispatched a group message that also names gemini in a team of
\* three, and both teammates received it
C19_Witness ==
  /\ lastCall.op = "dispatchTeamMessage"
  /\ activeAgents = <<"claude", "codex", "gemini">>
  /\ lastCall.args.from = "codex"
  /\ lastCall.args.scope = "GROUP"
  /\ lastCall.args.to = "gemini"
  /\ lastCall.result.recipients = <<"claude", "gemini">>

\* C20: after the roles were assigned over a non-empty active list exactly
\* one role entry of the session has isReviewAgent set, and it is the entry
\* whose id is session.reviewAgentId
C20_ExactlyOneReviewAgent ==
  (session # NULL /\ Len(activeAgents) > 0) =>
    LET marked == {i \in 1..Len(session.agents) : session.agents[i].isReviewAgent}
    IN /\ Cardinality(marked) = 1
       /\ \A i \in 1..Len(session.agents) :
            i \in marked <=> session.agents[i].id = session.reviewAgentId

\* a session of three agents was initialised and the review agent is not the
\* first of them
C20_Witness ==
  /\ session # NULL
  /\ lastCall.op = "initializeSession"
  /\ Len(session.agents) = 3
  /\ ~session.agents[1].isReviewAgent
  /\ session.reviewAgentId \in {session.agents[2].id, session.agents[3].id}

\* priority = reviewPriority + 10 if reviewPreferred, else reviewPriority
PriorityOfProfile(profile) ==
  IF profile.reviewPreferred THEN profile.reviewPriority + 10 ELSE profile.reviewPriority

\* C21: the review owner is the earliest agent of the list among those with
\* the maximal priority, the priority being reviewPriority + 10 for a profile
\* that prefers reviewing and reviewPriority otherwise: its position is
\* decided by the ordered list of role profiles alone, whatever ids the
\* agents carry
C21_EarliestOfMaximalPriority ==
  lastCall.op = "assignRoles" =>
    LET n == Len(activeAgents)
        prio == [i \in 1..n |-> PriorityOfProfile(activeAgents[i].roleProfile)]
        owner == CHOOSE i \in 1..n :
                   /\ \A j \in 1..n : prio[j] <= prio[i]
                   /\ \A j \in 1..(i - 1) : prio[j] < prio[i]
    IN session.reviewAgentId = activeAgents[owner].id

\* three agents: the second and the third tie for the maximal priority, one
\* through its preference and one without, and the second is the review owner
C21_Witness ==
  /\ lastCall.op = "assignRoles"
  /\ Len(activeAgents) = 3
  /\ PriorityOfProfile(activeAgents[1].roleProfile) < 10
  /\ activeAgents[2].roleProfile = [primary |-> "Implementation", secondary |-> "",
                                    reviewPreferred |-> TRUE, reviewPriority |-> 0]
  /\ activeAgents[3].roleProfile = [primary |-> "Implementation", secondary |-> "",
                                    reviewPreferred |-> FALSE, reviewPriority |-> 10]
  /\ session.reviewAgentId = activeAgents[2].id

C23_VariantExecutionUnbounded ==
  (lastCall.op = "executeAssignments" /\ run.variantRun) =>
    \A i \in 1..Len(lastCall.result) : lastCall.result[i].timeoutMs = 0

\* C24: when a fan-out batch has settled, its result has one entry per active
\* worker and entry i carries the id of the i-th active worker, whatever the
\* order in which the calls fulfilled or rejected
C24_EntriesInRegistrationOrder ==
  run.pc = "batchSettled" =>
    /\ Len(lastCall.result) = Len(activeAgents)
    /\ \A i \in 1..Len(activeAgents) : lastCall.result[i].agentId = activeAgents[i]

\* three workers whose executeTasks calls settled last-to-first, the first
\* rejecting and the others fulfilling
C24_Witness ==
  /\ run.pc = "batchSettled"
  /\ lastCall.op = "executeAssignments"
  /\ lastCall.args.order = <<3, 2, 1>>
  /\ run.calls[1].status = "rejected"
  /\ run.calls[2].status = "fulfilled"
  /\ run.calls[3].status = "fulfilled"

\* C25: a later phase never starts before every call of the prior batch has
\* settled: while negotiateResponsibilities calls are issued every
\* generatePlan call of the run has fulfilled or rejected, while executeTasks
\* calls are issued every negotiateResponsibilities call has, and in a variant
\* run executeTasks calls are issued only once every generatePlan call has
C25_PriorBatchSettled ==
  LET AllSettled(calls) ==
        /\ Len(calls) = Len(run.targets)
        /\ \A i \in 1..Len(calls) : calls[i].status \in {"fulfilled", "rejected"}
  IN /\ run.pc = "awaitAllocations" => AllSettled(run.settled.plans)
     /\ run.pc = "awaitTranscripts" =>
          /\ AllSettled(run.settled.plans)
          /\ AllSettled(run.settled.allocations)
     /\ run.pc = "awaitVariantTranscripts" => AllSettled(run.settled.plans)

\* the executeTasks calls of two workers are in flight after a planning in
\* which the first generatePlan call and the second
\* negotiateResponsibilities call rejected
C25_Witness ==
  /\ run.pc = "awaitTranscripts"
  /\ Len(run.calls) = 2
  /\ \A i \in 1..2 : run.calls[i] = InFlight
  /\ Len(run.settled.plans) = 2
  /\ run.settled.plans[1].status = "rejected"
  /\ Len(run.settled.allocations) = 2
  /\ run.settled.allocations[2].status = "rejected"

\* C26: when several listeners are registered for the same event and one of
\* them throws on an emission, every other listener registered for that
\* event is still invoked for that emission
C26_ThrowingListenerIsolated ==
  [][lastCall'.op = "emit" /\ UNCHANGED messageBus =>
       \A listener \in Range(messageBus.listeners[lastCall'.args.event]) :
         listener \in Range(lastCall'.result)]_vars

\* C27: an emission is delivered, before emit returns, to exactly the
\* listeners registered for its event at that moment; once the unsubscribe
\* function of a listener has been called the listener is no longer
\* registered for the event, so that it receives no later emission, and
\* after removeAll no listener is registered for anything
C27_DeliveredToRegisteredListeners ==
  [][/\ (lastCall'.op = "emit" /\ UNCHANGED messageBus) =>
          lastCall'.result = messageBus.listeners[lastCall'.args.event]
     /\ lastCall'.op = "unsubscribe" =>
          lastCall'.args.listener \notin Range(messageBus'.listeners[lastCall'.args.event])
     /\ lastCall'.op = "removeAll" =>
          \A event \in MessageEvents : messageBus'.listeners[event] = <<>>]_vars

\* C28: a status or planning event that is broadcast is handed to every
\* active worker except the one the event comes from, also when the receive
\* handler of some worker fails, and the failure does not leave the handler
\* that broadcast the event
C28_BroadcastToAllButSender ==
  lastCall.op \in {"handleStatusUpdate", "handlePlanningUpdate"} =>
    /\ lastCall.result.received =
         SelectSeq(activeAgents, LAMBDA id : id # lastCall.args.update.agentId)
    /\ ~lastCall.threw

\* C29: dispatchTeamMessage calls receiveTeamMessage on every resolved
\* recipient; a recipient whose receiveTeamMessage fails does not keep the
\* message from the others, the failure does not leave dispatchTeamMessage,
\* and the recipients reported are all the resolved ones
C29_DispatchIsolatesRecipients ==
  (lastCall.op = "dispatchTeamMessage" /\ run.pc = "delivered") =>
    LET resolved == determineRecipientsForMessage(activeAgents, lastCall.args.message)
    IN /\ lastCall.result.attempted = resolved
       /\ lastCall.result.received =
            SelectSeq(resolved, LAMBDA id : id \notin lastCall.args.failing)
       /\ ~lastCall.threw
       /\ lastCall.result.recipients = resolved

\* a group message to two recipients the first of which fails: the second
\* still receives it and both are reported
C29_Witness ==
  /\ lastCall.op = "dispatchTeamMessage"
  /\ run.pc = "delivered"
  /\ Len(lastCall.result.recipients) = 2
  /\ lastCall.args.failing = {lastCall.result.recipients[1]}
  /\ lastCall.result.received = <<lastCall.result.recipients[2]>>

\* C30: in the assignments runPlanningPhase builds, a worker whose
\* allocation is empty or failed (its negotiateResponsibilities call
\* rejected) is given the default assignment made from its role profile,
\* which opens with "Primary objectives:", instead of the empty or failure
\* text
C30_DefaultAssignmentForFailedAllocation ==
  (run.pc = "planned" /\ ~run.variantRun /\ session.assignments # NULL) =>
    \A i \in 1..Len(run.settled.allocations) :
      (\/ run.settled.allocations[i].status = "rejected"
       \/ trim(run.settled.allocations[i].value) = "")
        => LET text == session.assignments[activeAgents[i]]
           IN /\ Len(text) >= Len("Primary objectives:")
              /\ SubSeq(text, 1, Len("Primary objectives:")) = "Primary objectives:"

\* C31: the assignment map stored by a collaborative planning has one
\* assignment per active worker; the assignment of the review agent, and
\* only that one, ends with the review responsibilities, and the assignment
\* of every other worker ends with the completion protocol that names the
\* review agent as the one to notify
C31_ReviewReferenceInEveryAssignment ==
  (session # NULL /\ session.assignments # NULL) =>
    LET EndsWith(text, suffix) ==
          /\ Len(text) >= Len(suffix)
          /\ SubSeq(text, Len(text) - Len(suffix) + 1, Len(text)) = suffix
        protocol == CompletionProtocol(session.reviewAgentId,
                                       formatAgentLabel(session.agents, session.reviewAgentId))
    IN /\ DOMAIN session.assignments = Range(activeAgents)
       /\ session.reviewAgentId \in Range(activeAgents)
       /\ \A agentId \in Range(activeAgents) :
            IF agentId = session.reviewAgentId
            THEN /\ EndsWith(session.assignments[agentId], ReviewResponsibilities)
                 /\ ~EndsWith(session.assignments[agentId], protocol)
            ELSE /\ EndsWith(session.assignments[agentId], protocol)
                 /\ ~EndsWith(session.assignments[agentId], ReviewResponsibilities)

\* the assignments of two workers are stored, the allocation of the worker
\* that is not the review agent having failed
C31_Witness ==
  /\ session # NULL
  /\ session.assignments # NULL
  /\ Len(activeAgents) = 2
  /\ \E i \in 1..2 :
       /\ activeAgents[i] # session.reviewAgentId
       /\ run.settled.allocations[i].status = "rejected"

\* C32: a collaborative planning over N active workers emits N initial-plan
\* events, one per worker in registration order, then one
\* coordinator-summary, then N allocation events, then one final-division
\* whose assignment map is the one stored on the session; the execution
\* phase then emits N execution-transcript events, and nothing else is
\* emitted in between
C32_PlanningEventsInOrder ==
  LET N == Len(activeAgents)
      PerWorker(from, stage) ==
        \A i \in 1..N : /\ planningEvents[from + i].stage = stage
                        /\ planningEvents[from + i].agentId = activeAgents[i]
      Planned ==
        /\ Len(planningEvents) >= 2 * N + 2
        /\ PerWorker(0, "initial-plan")
        /\ planningEvents[N + 1].stage = "coordinator-summary"
        /\ PerWorker(N + 1, "allocation")
        /\ planningEvents[2 * N + 2].stage = "final-division"
        /\ planningEvents[2 * N + 2].body = session.assignments
  IN ~run.variantRun =>
       /\ run.pc = "awaitAllocations" =>
            /\ Len(planningEvents) = N + 1
            /\ PerWorker(0, "initial-plan")
            /\ planningEvents[N + 1].stage = "coordinator-summary"
       /\ run.pc \in {"planned", "awaitTranscripts"} =>
            /\ Planned
            /\ Len(planningEvents) = 2 * N + 2
       /\ (run.pc = "complete" /\ lastCall.op = "runExecutionPhase" /\ ~lastCall.result.skipped) =>
            /\ Planned
            /\ Len(planningEvents) = 3 * N + 2
            /\ PerWorker(2 * N + 2, "execution-transcript")

\* a collaborative run of two workers has executed its assignments
C32_Witness ==
  /\ ~run.variantRun
  /\ run.pc = "complete"
  /\ lastCall.op = "runExecutionPhase"
  /\ ~lastCall.result.skipped
  /\ Len(activeAgents) = 2
  /\ Len(planningEvents) = 8

\* C33: in a variant run no plan of a worker is shown to another worker:
\* no negotiateResponsibilities call is issued, no initial-plan,
\* coordinator-summary or allocation event is emitted, and no event that is
\* broadcast to other workers contains a plan text
C33_PlansStayPrivate ==
  run.variantRun =>
    /\ run.pc # "awaitAllocations"
    /\ \A k \in 1..Len(planningEvents) :
         planningEvents[k].stage \notin {"initial-plan", "coordinator-summary", "allocation"}
    /\ (lastCall.op = "handleStatusUpdate" /\ lastCall.result.received # <<>>) =>
         \A text \in PlanTexts :
           ~Includes(lastCall.args.update.description, SliceTo(text, 80))

\* C34: with variantSelectionMode 'auto' configured a variant run never
\* suspends for a selection: it emits no variant-selection-request, the
\* pending selection stays null during the whole run, and once the planning
\* has returned the stored selection has mode 'auto'
C34_AutoStrategyNeverSuspends ==
  (settings.variantSelectionMode = "auto" /\ run.variantRun) =>
    /\ pendingVariantSelection = NULL
    /\ run.pc \notin {"awaitSelection", "selectionResolved"}
    /\ \A k \in 1..Len(planningEvents) : planningEvents[k].stage # "variant-selection-request"
    /\ run.pc \in {"planned", "complete"} =>
         /\ session.variant # NULL
         /\ session.variant.selection # NULL
         /\ session.variant.selection.mode = "auto"
         /\ planningEvents[Len(planningEvents)].stage = "variant-selected"

\* the variant planning of two workers has returned under the automatic
\* strategy, an executeTasks call having rejected
C34_Witness ==
  /\ settings.variantSelectionMode = "auto"
  /\ run.variantRun
  /\ run.pc = "planned"
  /\ Len(activeAgents) = 2
  /\ run.settled.transcripts[1].status = "rejected"
  /\ session.variant.selection.mode = "auto"

\* C35: a web-search request with a non-empty query, emitted by an active
\* agent once the web-search agent has been initialised (any number of
\* times), is handled exactly once and answered with exactly one team message
\* addressed and delivered to the requester: the report when the search
\* succeeded, the failure description when it failed
C35_RequestAnsweredOnce ==
  (/\ lastCall.op = "requestWebSearch"
   /\ lastCall.result.request # NULL
   /\ lastCall.result.initialised)
  => /\ lastCall.result.handled = 1
     /\ Len(lastCall.result.messages) = 1
     /\ lastCall.result.messages[1].payload.from = "web-search"
     /\ lastCall.result.messages[1].payload.to = lastCall.args.requester
     /\ lastCall.result.messages[1].recipients = <<lastCall.args.requester>>
     /\ lastCall.result.messages[1].payload.message =
          IF lastCall.args.succeeds
          THEN formatReport(lastCall.result.request.query, "1. PKCE for public clients")
          ELSE searchFailure(lastCall.result.request.query, "search timed out")

\* gemini asked for a search in a session of three agents after initialize had
\* run, the search failed and gemini alone was sent the failure description
C35_Witness ==
  /\ lastCall.op = "requestWebSearch"
  /\ lastCall.args.requester = "gemini"
  /\ ~lastCall.args.succeeds
  /\ Len(activeAgents) = 3
  /\ lastCall.result.initialised
  /\ lastCall.result.handled = 1
  /\ Len(lastCall.result.messages) = 1
  /\ lastCall.result.messages[1].recipients = <<"gemini">>
  /\ lastCall.result.messages[1].payload.message =
       "Search failed for \"rate limits\": search timed out"

\* C36: every invocation suspended in a manual variant selection can be
\* resumed: the pending-selection slot holds the request, and with it the
\* continuation, of every suspended invocation, also when runPlanningPhase
\* was called again while a selection was pending
C36_SuspendedPipelineResumable ==
  \A requestId \in AwaitingSelection :
    /\ pendingVariantSelection # NULL
    /\ pendingVariantSelection.requestId = requestId

\* C37: with three or more active agents, the text of a direct team message
\* that resolves to a single recipient reaches no third agent: no other agent
\* is among the recipients of the message, and no other agent receives a
\* status update whose description contains the text
C37_DirectMessageStaysPrivate ==
  (/\ lastCall.op = "handleTeamMessage"
   /\ Len(activeAgents) >= 3
   /\ lastCall.args.scope = "direct"
   /\ lastCall.args.to # ""
   /\ lastCall.result.recipients = <<lastCall.args.to>>)
  => \A third \in Range(activeAgents) \ {lastCall.args.from, lastCall.args.to} :
       /\ third \notin Range(lastCall.result.recipients)
       /\ ~(/\ third \in Range(lastCall.result.statusReceived)
            /\ Includes(lastCall.result.status.description, lastCall.args.message))

\* C38: after any sequence of setCollaborationMode and initializeSession
\* calls, whatever the values passed as a mode, the coordinator's mode is
\* 'variant' or 'collaborative', and the mode of the session (when there is
\* one) and the collaborationMode setting equal it
C38_ModesAgree ==
  /\ mode \in {"variant", "collaborative"}
  /\ settings.collaborationMode = mode
  /\ session # NULL => session.mode = mode

\* the mode was set back to collaborative for a session that had completed a
\* variant run
C38_Witness ==
  /\ session # NULL
  /\ session.variant # NULL
  /\ session.mode = "collaborative"
  /\ mode = "collaborative"
  /\ settings.collaborationMode = "collaborative"

\* C39: the phase operations are guarded: initializeSession with an empty
\* selection, runPlanningPhase and runExecutionPhase without a session, and a
\* collaborative runExecutionPhase before there are assignments each throw,
\* call no capability of any agent (no initialize, no batch of calls is
\* started) and leave the session, the active agents and the planning events
\* as they were
C39_PhaseGuards ==
  [][/\ (lastCall'.op = "initializeSession" /\ InitializeSession({{}})) =>
          /\ lastCall'.threw
          /\ lastCall'.error = "At least one agent must be selected."
          /\ lastCall'.args.selected = <<>>
          /\ UNCHANGED <<session, activeAgents, run, planningEvents>>
     /\ (lastCall'.op = "runPlanningPhase" /\ session = NULL /\ RunPlanningPhase) =>
          /\ lastCall'.threw
          /\ lastCall'.error = "Session not initialised"
          /\ UNCHANGED <<session, activeAgents, run, planningEvents>>
     /\ (/\ lastCall'.op = "runExecutionPhase"
         /\ session = NULL \/ (mode # "variant" /\ session.assignments = NULL)
         /\ RunExecutionPhase) =>
          /\ lastCall'.threw
          /\ lastCall'.error = IF session = NULL THEN "Session not initialised"
                               ELSE "Assignments not ready"
          /\ run'.calls = run.calls
          /\ run'.targets = run.targets
          /\ run'.pc \notin AwaitingCalls
          /\ UNCHANGED <<session, activeAgents, planningEvents>>]_vars

\* runExecutionPhase was called in collaborative mode for a session that had
\* not been planned, and threw
C39_Witness ==
  /\ lastCall.op = "runExecutionPhase"
  /\ lastCall.threw
  /\ lastCall.error = "Assignments not ready"
  /\ session # NULL
  /\ session.assignments = NULL
  /\ mode = "collaborative"
  /\ run.calls = <<>>

\* C40: a settled fan-out batch has one entry per agent that was active when
\* the batch started, and the fallback entry of a rejected call names the
\* agent the call was issued to, also when initializeSession replaced the
\* active agents while the batch was in flight
C40_FallbackNamesRejectedWorker ==
  run.pc = "batchSettled" =>
    /\ Len(lastCall.result) = Len(run.targets)
    /\ \A i \in 1..Len(run.targets) :
         run.calls[i].status = "rejected" => lastCall.result[i].agentId = run.targets[i]

====
